---- MODULE Spec2Model ----
(***************************************************************************)
(* A model of swiper-attribute.js: the attribute-to-configuration          *)
(* resolution (parseValue, kebabToCamel, deepMerge,                        *)
(* buildBreakpointsFromAttributes, parseConfiguration), the element graph  *)
(* (prepareSwiperElements), the assembly (buildSwiperConfig) and the       *)
(* lifecycle (initializeSwiperComponent, initializeAllSwipers,             *)
(* destroySwiperComponent, reinitializeSwiperComponent, the                *)
(* MutationObserver callback, init).                                       *)
(*                                                                         *)
(* JavaScript strings are sequences of one-character strings, so that the  *)
(* regular expressions, startsWith/endsWith/replace and JSON.parse are     *)
(* computed on characters.  JavaScript values are tagged records.          *)
(***************************************************************************)
EXTENDS Integers, Sequences, FiniteSets, TLC

VARIABLES
  role,         \* DOM: node -> value of its data-swiper attribute ("none": no such attribute)
  parent,       \* DOM: node -> parent node (0 is document.body); document order is node order
  detached,     \* DOM: the subtree roots that are not (yet) inserted under their parent
  attrs,        \* DOM: component node -> its data-swiper-* attributes, in enumeration order
  classes,      \* DOM: node -> classList
  marker,       \* node -> has the data-swiper-initialized attribute
  handle,       \* node -> component.swiperInstance (0: the property is absent)
  instances,    \* every object the Swiper constructor returned, in construction order
  registry,     \* window.swiperInstances ("unset" before init() has run)
  swiperLoaded, \* typeof Swiper !== 'undefined'
  sinceDestroy, \* the components the constructor was invoked for, and returned
                \* an instance for, since their last destroySwiperComponent call
  started,      \* init() has run
  observing,    \* observer.observe(document.body, ...) has been called
  queue,        \* MutationRecords not yet delivered to the observer's callback
  calls,        \* the calls of initialize/destroy the last step made, in order
  ret,          \* what the last step's entry point returned
  step,         \* the last step's entry point
  arg,          \* a function applied on its own: its argument
  out           \* a function applied on its own: what it returned

vars == <<role, parent, detached, attrs, classes, marker, handle, instances,
          registry, swiperLoaded, sinceDestroy, started, observing, queue,
          calls, ret, step, arg, out>>

applied == <<arg, out>>

-----------------------------------------------------------------------------
(* Strings *)

Digits == {"0", "1", "2", "3", "4", "5", "6", "7", "8", "9"}

DigitVal(c) ==
  CASE c = "0" -> 0 [] c = "1" -> 1 [] c = "2" -> 2 [] c = "3" -> 3
    [] c = "4" -> 4 [] c = "5" -> 5 [] c = "6" -> 6 [] c = "7" -> 7
    [] c = "8" -> 8 [] c = "9" -> 9

Lower == {"a", "b", "c", "d", "e", "f", "g", "h", "i", "j", "k", "l", "m",
          "n", "o", "p", "q", "r", "s", "t", "u", "v", "w", "x", "y", "z"}

ToUpperCase(c) ==
  CASE c = "a" -> "A" [] c = "b" -> "B" [] c = "c" -> "C" [] c = "d" -> "D"
    [] c = "e" -> "E" [] c = "f" -> "F" [] c = "g" -> "G" [] c = "h" -> "H"
    [] c = "i" -> "I" [] c = "j" -> "J" [] c = "k" -> "K" [] c = "l" -> "L"
    [] c = "m" -> "M" [] c = "n" -> "N" [] c = "o" -> "O" [] c = "p" -> "P"
    [] c = "q" -> "Q" [] c = "r" -> "R" [] c = "s" -> "S" [] c = "t" -> "T"
    [] c = "u" -> "U" [] c = "v" -> "V" [] c = "w" -> "W" [] c = "x" -> "X"
    [] c = "y" -> "Y" [] c = "z" -> "Z" [] OTHER -> c

\* s.substring(i - 1): the characters of s from position i (1-based) on
From(s, i) == IF i > Len(s) THEN <<>> ELSE SubSeq(s, i, Len(s))

StartsWith(s, p) == Len(p) <= Len(s) /\ SubSeq(s, 1, Len(p)) = p

EndsWith(s, p) == Len(p) <= Len(s) /\ SubSeq(s, Len(s) - Len(p) + 1, Len(s)) = p

\* the least number of a non-empty set of numbers
Min(S) == CHOOSE i \in S : \A j \in S : i <= j

\* s.indexOf(p) + 1, and 0 when p does not occur in s
IndexOf(s, p) ==
  IF \E i \in 1..(Len(s) - Len(p) + 1) : SubSeq(s, i, i + Len(p) - 1) = p
  THEN Min({i \in 1..(Len(s) - Len(p) + 1) : SubSeq(s, i, i + Len(p) - 1) = p})
  ELSE 0

\* s without the Len(p) characters from position i on; s itself when i = 0
RemoveAt(s, p, i) ==
  IF i = 0 THEN s ELSE SubSeq(s, 1, i - 1) \o From(s, i + Len(p))

\* s.replace(p, ''), p a string: the first occurrence of p is removed
RemoveFirst(s, p) == RemoveAt(s, p, IndexOf(s, p))

RECURSIVE kebabToCamel(_)
\* str.replace(/-([a-z])/g, (match, letter) => letter.toUpperCase())
kebabToCamel(str) ==
  IF str = <<>> THEN <<>>
  ELSE IF Len(str) >= 2 /\ str[1] = "-" /\ str[2] \in Lower
       THEN <<ToUpperCase(str[2])>> \o kebabToCamel(From(str, 3))
       ELSE <<str[1]>> \o kebabToCamel(Tail(str))

-----------------------------------------------------------------------------
(* JavaScript values *)

Undefined == [t |-> "undefined"]
Null == [t |-> "null"]
Bool(b) == [t |-> "boolean", b |-> b]
\* the number m / 10^e, with e the least such exponent
Num(m, e) == [t |-> "number", m |-> m, e |-> e]
Str(s) == [t |-> "string", s |-> s]
\* a plain object: o maps its own keys (strings) to values
Obj(o) == [t |-> "object", o |-> o]
Arr(a) == [t |-> "array", a |-> a]
\* a DOM element, by identity
Elem(n) == [t |-> "element", n |-> n]

EmptyObject == Obj(<<>>)

RECURSIVE Normalize(_, _)
\* m / 10^e in lowest decimal form
Normalize(m, e) ==
  IF e > 0 /\ m % 10 = 0 THEN Normalize(m \div 10, e - 1) ELSE Num(m, e)

RECURSIVE DecimalValue(_)
DecimalValue(s) ==
  IF s = <<>> THEN 0
  ELSE 10 * DecimalValue(SubSeq(s, 1, Len(s) - 1)) + DigitVal(s[Len(s)])

AllDigits(s) == \A i \in 1..Len(s) : s[i] \in Digits

\* the truthiness of a value in a condition
Truthy(v) ==
  CASE v.t = "undefined" -> FALSE
    [] v.t = "null" -> FALSE
    [] v.t = "boolean" -> v.b
    [] v.t = "number" -> v.m # 0
    [] v.t = "string" -> v.s # <<>>
    [] OTHER -> TRUE

\* target[key] of a plain object's own keys
Get(v, key) ==
  IF v.t = "object" /\ key \in DOMAIN v.o THEN v.o[key] ELSE Undefined

\* obj[key] = val on a copy
Put(o, key, val) == [k \in (DOMAIN o) \cup {key} |-> IF k = key THEN val ELSE o[k]]

-----------------------------------------------------------------------------
(* JSON.parse, on texts without white space, escapes and exponents *)

\* A parse of the text from some position: ok is FALSE for a SyntaxError, else
\* v is the value read and i the position after it.
JFail == [ok |-> FALSE, v |-> Undefined, i |-> 0]
JOk(v, i) == [ok |-> TRUE, v |-> v, i |-> i]

\* the end of the run of digits of s that starts at position i (i itself when none)
RECURSIVE DigitsEnd(_, _)
DigitsEnd(s, i) ==
  IF i <= Len(s) /\ s[i] \in Digits THEN DigitsEnd(s, i + 1) ELSE i

\* the position of the quote that closes a string literal whose characters start at i
RECURSIVE QuoteEnd(_, _)
QuoteEnd(s, i) ==
  IF i > Len(s) THEN 0
  ELSE IF s[i] = "\"" THEN i
  ELSE IF s[i] = "\\" THEN 0
  ELSE QuoteEnd(s, i + 1)

\* a number that ends before position e
JNumEnd(s, e, v) ==
  IF e <= Len(s) /\ s[e] \in {"e", "E"} THEN JFail ELSE JOk(v, e)

\* digits b..e1-1, a point at e1, digits up to e2-1
JFracPart(s, b, e1, e2) ==
  IF e2 = e1 + 1 THEN JFail
  ELSE JNumEnd(s, e2, Normalize(DecimalValue(SubSeq(s, b, e1 - 1)
                                             \o SubSeq(s, e1 + 1, e2 - 1)),
                                e2 - e1 - 1))

\* digits b..e1-1
JIntPart(s, b, e1) ==
  IF e1 = b \/ (e1 - b > 1 /\ s[b] = "0") THEN JFail
  ELSE IF e1 <= Len(s) /\ s[e1] = "."
       THEN JFracPart(s, b, e1, DigitsEnd(s, e1 + 1))
       ELSE JNumEnd(s, e1, Num(DecimalValue(SubSeq(s, b, e1 - 1)), 0))

JNegate(r) == IF r.ok THEN JOk(Num(0 - r.v.m, r.v.e), r.i) ELSE JFail

JNumber(s, i) ==
  IF i <= Len(s) /\ s[i] = "-"
  THEN JNegate(JIntPart(s, i + 1, DigitsEnd(s, i + 1)))
  ELSE JIntPart(s, i, DigitsEnd(s, i))

\* the string literal whose characters start at i and whose closing quote is at q
JString(s, i, q) ==
  IF q = 0 THEN JFail ELSE JOk(Str(SubSeq(s, i, q - 1)), q + 1)

RECURSIVE JValue(_, _), JMembers(_, _, _), JMemberKey(_, _, _, _),
          JMemberValue(_, _, _), JElements(_, _, _), JElementNext(_, _, _)
\* the value that starts at position i of s
JValue(s, i) ==
  IF i > Len(s) THEN JFail
  ELSE IF s[i] = "{" THEN
         IF i + 1 <= Len(s) /\ s[i + 1] = "}" THEN JOk(EmptyObject, i + 2)
         ELSE JMembers(s, i + 1, <<>>)
  ELSE IF s[i] = "[" THEN
         IF i + 1 <= Len(s) /\ s[i + 1] = "]" THEN JOk(Arr(<<>>), i + 2)
         ELSE JElements(s, i + 1, <<>>)
  ELSE IF s[i] = "\"" THEN JString(s, i + 1, QuoteEnd(s, i + 1))
  ELSE IF StartsWith(From(s, i), <<"t", "r", "u", "e">>) THEN JOk(Bool(TRUE), i + 4)
  ELSE IF StartsWith(From(s, i), <<"f", "a", "l", "s", "e">>) THEN JOk(Bool(FALSE), i + 5)
  ELSE IF StartsWith(From(s, i), <<"n", "u", "l", "l">>) THEN JOk(Null, i + 4)
  ELSE JNumber(s, i)

\* "key":value members from position i, after the members collected in o
JMembers(s, i, o) ==
  IF i > Len(s) \/ s[i] # "\"" THEN JFail
  ELSE JMemberKey(s, i, o, QuoteEnd(s, i + 1))

\* the member whose key is s[i+1..q-1]
JMemberKey(s, i, o, q) ==
  IF q = 0 \/ q + 1 > Len(s) \/ s[q + 1] # ":" THEN JFail
  ELSE JMemberValue(s, [o |-> o, key |-> SubSeq(s, i + 1, q - 1)], JValue(s, q + 2))

\* the member m.key with the value read in r; a repeated key keeps the last value
JMemberValue(s, m, r) ==
  IF ~r.ok \/ r.i > Len(s) THEN JFail
  ELSE IF s[r.i] = "}" THEN JOk(Obj(Put(m.o, m.key, r.v)), r.i + 1)
  ELSE IF s[r.i] = "," THEN JMembers(s, r.i + 1, Put(m.o, m.key, r.v))
  ELSE JFail

\* array elements from position i, after the elements collected in a
JElements(s, i, a) == JElementNext(s, a, JValue(s, i))

JElementNext(s, a, r) ==
  IF ~r.ok \/ r.i > Len(s) THEN JFail
  ELSE IF s[r.i] = "]" THEN JOk(Arr(Append(a, r.v)), r.i + 1)
  ELSE IF s[r.i] = "," THEN JElements(s, r.i + 1, Append(a, r.v))
  ELSE JFail

\* the parse r of the whole of str
JWhole(str, r) == IF r.ok /\ r.i = Len(str) + 1 THEN r ELSE JFail

\* JSON.parse(str): ok is FALSE when it throws a SyntaxError
JSONParse(str) == JWhole(str, JValue(str, 1))

OrFallback(r, fallback) == IF r.ok THEN r.v ELSE fallback

safeJSONParse(str, fallback) == OrFallback(JSONParse(str), fallback)

-----------------------------------------------------------------------------
(* parseValue *)

\* /^\d+$/.test(value)
IsUnsignedInteger(value) == Len(value) > 0 /\ AllDigits(value)

\* /^\d+\.\d+$/.test(value)
IsUnsignedDecimal(value) ==
  \E d \in 2..(Len(value) - 1) :
     /\ value[d] = "."
     /\ AllDigits(SubSeq(value, 1, d - 1))
     /\ AllDigits(From(value, d + 1))

\* the number whose digits are value's, with the point at position d
FloatAt(value, d) ==
  Normalize(DecimalValue(SubSeq(value, 1, d - 1) \o From(value, d + 1)),
            Len(value) - d)

\* parseFloat(value) for a value that IsUnsignedDecimal
ParseFloat(value) == FloatAt(value, IndexOf(value, <<".">>))

\* value.startsWith('{') && value.endsWith('}') || the same with '[' and ']'
LooksLikeJSON(value) ==
  \/ (StartsWith(value, <<"{">>) /\ EndsWith(value, <<"}">>))
  \/ (StartsWith(value, <<"[">>) /\ EndsWith(value, <<"]">>))

\* parseValue with /^-?\d+$/ for the test of line 147
parseValueSigned(value) ==
  IF value = <<"t", "r", "u", "e">> THEN Bool(TRUE)
  ELSE IF value = <<"f", "a", "l", "s", "e">> THEN Bool(FALSE)
  ELSE IF IsUnsignedInteger(value) THEN Num(DecimalValue(value), 0)
  ELSE IF StartsWith(value, <<"-">>) /\ IsUnsignedInteger(Tail(value))
       THEN Num(0 - DecimalValue(Tail(value)), 0)
  ELSE IF IsUnsignedDecimal(value) THEN ParseFloat(value)
  ELSE IF LooksLikeJSON(value) THEN safeJSONParse(value, Str(value))
  ELSE Str(value)

parseValue(value) ==
  IF value = <<"t", "r", "u", "e">> THEN Bool(TRUE)
  ELSE IF value = <<"f", "a", "l", "s", "e">> THEN Bool(FALSE)
  ELSE IF IsUnsignedInteger(value) THEN Num(DecimalValue(value), 0)
  ELSE IF IsUnsignedDecimal(value) THEN ParseFloat(value)
  ELSE IF LooksLikeJSON(value) THEN safeJSONParse(value, Str(value))
  ELSE Str(value)

-----------------------------------------------------------------------------
(* Names of the program *)

\* 'data-swiper-'
CONFIG_ATTR_PREFIX == <<"d", "a", "t", "a", "-", "s", "w", "i", "p", "e", "r", "-">>
\* 'data-swiper'
ROLE_ATTR == <<"d", "a", "t", "a", "-", "s", "w", "i", "p", "e", "r">>
\* 'data-swiper-initialized'
INITIALIZED_ATTR == CONFIG_ATTR_PREFIX \o <<"i", "n", "i", "t", "i", "a", "l", "i", "z", "e", "d">>

MobilePortrait == <<"m", "o", "b", "i", "l", "e", "-", "p", "o", "r", "t", "r", "a", "i", "t">>
MobileLandscape == <<"m", "o", "b", "i", "l", "e", "-", "l", "a", "n", "d", "s", "c", "a", "p", "e">>
Tablet == <<"t", "a", "b", "l", "e", "t">>
Desktop == <<"d", "e", "s", "k", "t", "o", "p">>

BREAKPOINT_SUFFIXES == <<MobilePortrait, MobileLandscape, Tablet, Desktop>>

mobileLandscapePx == 480
tabletPx == 768
desktopPx == 992

kSlidesPerView == <<"s", "l", "i", "d", "e", "s", "P", "e", "r", "V", "i", "e", "w">>
kSpaceBetween == <<"s", "p", "a", "c", "e", "B", "e", "t", "w", "e", "e", "n">>
kLoop == <<"l", "o", "o", "p">>
kSpeed == <<"s", "p", "e", "e", "d">>
kBreakpoints == <<"b", "r", "e", "a", "k", "p", "o", "i", "n", "t", "s">>
kPagination == <<"p", "a", "g", "i", "n", "a", "t", "i", "o", "n">>
kNavigation == <<"n", "a", "v", "i", "g", "a", "t", "i", "o", "n">>
kAutoplay == <<"a", "u", "t", "o", "p", "l", "a", "y">>
kEl == <<"e", "l">>
kClickable == <<"c", "l", "i", "c", "k", "a", "b", "l", "e">>
kPrevEl == <<"p", "r", "e", "v", "E", "l">>
kNextEl == <<"n", "e", "x", "t", "E", "l">>
kDelay == <<"d", "e", "l", "a", "y">>
kDisableOnInteraction == <<"d", "i", "s", "a", "b", "l", "e", "O", "n", "I", "n", "t", "e", "r", "a", "c", "t", "i", "o", "n">>

DEFAULT_CONFIG ==
  Obj((kSlidesPerView :> Num(1, 0)) @@ (kSpaceBetween :> Num(16, 0))
      @@ (kLoop :> Bool(FALSE)) @@ (kSpeed :> Num(400, 0)))

-----------------------------------------------------------------------------
(* deepMerge *)

DigitChar(d) ==
  CASE d = 0 -> "0" [] d = 1 -> "1" [] d = 2 -> "2" [] d = 3 -> "3" [] d = 4 -> "4"
    [] d = 5 -> "5" [] d = 6 -> "6" [] d = 7 -> "7" [] d = 8 -> "8" [] d = 9 -> "9"

RECURSIVE IntToStr(_)
\* String(n) for an integer n >= 0
IntToStr(n) ==
  IF n < 10 THEN <<DigitChar(n)>> ELSE IntToStr(n \div 10) \o <<DigitChar(n % 10)>>

\* the properties an array or a string a has by index: "0", "1", ...
ByIndex(a, make(_)) ==
  [k \in {IntToStr(i - 1) : i \in DOMAIN a} |->
     make(a[CHOOSE i \in DOMAIN a : IntToStr(i - 1) = k])]

AsIs(v) == v
CharString(c) == Str(<<c>>)

\* the own enumerable properties { ...v } copies: those of a plain object, the
\* indices of an array or of a string, none of any other value (a DOM element
\* is taken to carry none)
Spread(v) ==
  CASE v.t = "object" -> v.o
    [] v.t = "array" -> ByIndex(v.a, AsIs)
    [] v.t = "string" -> ByIndex(v.s, CharString)
    [] OTHER -> <<>>

\* item && typeof item === 'object' && !Array.isArray(item)
isObject(item) == item.t \in {"object", "element"}

\* properties every plain object inherits from Object.prototype (two of them)
kConstructor == <<"c", "o", "n", "s", "t", "r", "u", "c", "t", "o", "r">>
kToString == <<"t", "o", "S", "t", "r", "i", "n", "g">>
ObjectPrototypeKeys == {kConstructor, kToString}
Function == [t |-> "function"]

\* key in target, for a target that isObject
HasProperty(target, key) ==
  target.t = "object" /\ (key \in DOMAIN target.o \/ key \in ObjectPrototypeKeys)

\* target[key]
GetProperty(target, key) ==
  IF target.t = "object" /\ key \in DOMAIN target.o THEN target.o[key]
  ELSE IF target.t = "object" /\ key \in ObjectPrototypeKeys THEN Function
  ELSE Undefined

RECURSIVE deepMerge(_, _), MergeKeys(_, _, _)
deepMerge(target, source) ==
  IF isObject(target) /\ isObject(source)
  THEN MergeKeys(target, Spread(target), Spread(source))
  ELSE Obj(Spread(target))

\* lines 167-177: output is { ...target }, src the own properties of source
MergeKeys(target, output, src) ==
  Obj([key \in (DOMAIN output) \cup (DOMAIN src) |->
        IF key \notin DOMAIN src THEN output[key]
        ELSE IF isObject(src[key])
             THEN IF ~HasProperty(target, key) THEN src[key]
                  ELSE deepMerge(GetProperty(target, key), src[key])
             ELSE src[key]])

-----------------------------------------------------------------------------
(* buildBreakpointsFromAttributes, parseConfiguration *)

\* An attribute is <<name, value>>; a component's attributes are a sequence of
\* attributes with distinct names, in the order component.attributes lists them.

\* the first suffix among those numbered hits, <<>> when there is none
FirstSuffix(hits) ==
  IF hits = {} THEN <<>> ELSE BREAKPOINT_SUFFIXES[Min(hits)]

\* the first suffix of BREAKPOINT_SUFFIXES with attrName.endsWith(`-${suffix}`), or <<>>
SuffixOf(attrName) ==
  FirstSuffix({i \in DOMAIN BREAKPOINT_SUFFIXES :
                 EndsWith(attrName, <<"-">> \o BREAKPOINT_SUFFIXES[i])})

\* lines 252-253: the option name of a suffixed attribute
ConfigNameOf(attrName, suffix) ==
  RemoveFirst(RemoveFirst(attrName, CONFIG_ATTR_PREFIX), <<"-">> \o suffix)

\* lines 258-272, for an attribute with a suffix other than mobile-portrait
RecordOption(data, breakpointFound, configName, attrValue) ==
  IF configName = <<>> THEN data
  ELSE [data EXCEPT ![breakpointFound] =
          Put(@, kebabToCamel(configName), parseValue(attrValue))]

\* lines 241-272: one attribute, breakpointFound its suffix (<<>> for none)
RecordAttribute(data, attrName, attrValue, breakpointFound) ==
  IF \/ ~StartsWith(attrName, CONFIG_ATTR_PREFIX)
     \/ breakpointFound = <<>>
     \/ breakpointFound = MobilePortrait
  THEN data
  ELSE RecordOption(data, breakpointFound, ConfigNameOf(attrName, breakpointFound),
                    attrValue)

RECURSIVE ScanBreakpoints(_, _, _)
\* the loop of lines 236-273 from attribute i on; data is breakpointData
ScanBreakpoints(attributes, i, data) ==
  IF i > Len(attributes) THEN data
  ELSE ScanBreakpoints(attributes, i + 1,
         RecordAttribute(data, attributes[i][1], attributes[i][2],
                         SuffixOf(attributes[i][1])))

\* EmitTier without its test
EmitTierAlways(breakpointsConfig, data, suffix, px) ==
  Put(breakpointsConfig, IntToStr(px), Obj(data[suffix]))

\* lines 276-286: one of the three ifs
EmitTier(breakpointsConfig, data, suffix, px) ==
  IF DOMAIN data[suffix] # {}
  THEN Put(breakpointsConfig, IntToStr(px), Obj(data[suffix]))
  ELSE breakpointsConfig

\* line 288
NullIfEmpty(breakpointsConfig) ==
  IF DOMAIN breakpointsConfig # {} THEN Obj(breakpointsConfig) ELSE Null

\* EmitBreakpoints with the thresholds of tablet and desktop exchanged
EmitBreakpointsSwapped(data) ==
  NullIfEmpty(
    EmitTier(EmitTier(EmitTier(<<>>, data, MobileLandscape, mobileLandscapePx),
                      data, Tablet, desktopPx),
             data, Desktop, tabletPx))

\* lines 276-288
EmitBreakpoints(data) ==
  NullIfEmpty(
    EmitTier(EmitTier(EmitTier(<<>>, data, MobileLandscape, mobileLandscapePx),
                      data, Tablet, tabletPx),
             data, Desktop, desktopPx))

\* returns Null for no breakpoints
buildBreakpointsFromAttributes(attributes) ==
  EmitBreakpoints(ScanBreakpoints(attributes, 1,
                    [s \in {MobileLandscape, Tablet, Desktop} |-> <<>>]))

\* SetOption without the test of lines 318-325
SetOptionWithSuffix(config, attrName, attrValue) ==
  IF /\ StartsWith(attrName, CONFIG_ATTR_PREFIX)
     /\ attrName # ROLE_ATTR
     /\ attrName # INITIALIZED_ATTR
  THEN Put(config, kebabToCamel(RemoveFirst(attrName, CONFIG_ATTR_PREFIX)),
           parseValue(attrValue))
  ELSE config

\* lines 313-335: one attribute
SetOption(config, attrName, attrValue) ==
  IF /\ StartsWith(attrName, CONFIG_ATTR_PREFIX)
     /\ attrName # ROLE_ATTR
     /\ attrName # INITIALIZED_ATTR
     /\ SuffixOf(attrName) = <<>>
  THEN Put(config, kebabToCamel(RemoveFirst(attrName, CONFIG_ATTR_PREFIX)),
           parseValue(attrValue))
  ELSE config

RECURSIVE ScanOptions(_, _, _)
\* the loop of lines 307-336 from attribute i on
ScanOptions(attributes, i, config) ==
  IF i > Len(attributes) THEN config
  ELSE ScanOptions(attributes, i + 1,
                   SetOption(config, attributes[i][1], attributes[i][2]))

\* lines 340-347
MergeBreakpoints(config, breakpointsFromAttrs) ==
  IF breakpointsFromAttrs # Null
  THEN Obj(Put(config, kBreakpoints,
               IF kBreakpoints \in DOMAIN config /\ Truthy(config[kBreakpoints])
               THEN deepMerge(config[kBreakpoints], breakpointsFromAttrs)
               ELSE breakpointsFromAttrs))
  ELSE Obj(config)

parseConfiguration(attributes) ==
  MergeBreakpoints(ScanOptions(attributes, 1, DEFAULT_CONFIG.o),
                   buildBreakpointsFromAttributes(attributes))

\* What a call of parseConfiguration leaves: the object it returns and the
\* object DEFAULT_CONFIG names after it.
Parsed(config, defaults) == [config |-> config, defaults |-> defaults]

\* one object under both names
Shared(config) == Parsed(config, config)

\* parseConfiguration with `const config = DEFAULT_CONFIG` for line 303: the
\* loop and the merge write to the shared object
parseIntoDefaults(defaults, attributes) ==
  Shared(MergeBreakpoints(ScanOptions(attributes, 1, Spread(defaults)),
                          buildBreakpointsFromAttributes(attributes)))

\* lines 302-348, DEFAULT_CONFIG naming defaults when the call begins: line 303
\* copies its own properties and every write goes to the copy
parseConfigurationWith(defaults, attributes) ==
  Parsed(MergeBreakpoints(ScanOptions(attributes, 1, Spread(defaults)),
                          buildBreakpointsFromAttributes(attributes)),
         defaults)

-----------------------------------------------------------------------------
(* The DOM *)

Nodes == DOMAIN role

\* node.parentNode: 0 is document.body, -1 is no parent
ParentNode(n) == IF n \in detached THEN -1 ELSE parent[n]

RECURSIVE Ancestors(_)
\* p, a parentNode, and what is above it
UpFromParent(p) ==
  IF p = -1 THEN {}
  ELSE IF p = 0 THEN {0}
  ELSE {p} \cup Ancestors(p)

\* the proper ancestors of n, document.body (0) among them when n is in the document
Ancestors(n) == UpFromParent(ParentNode(n))

InDocument(n) == 0 \in Ancestors(n)

RECURSIVE InOrder(_)
\* the nodes of S in document order
InOrder(S) ==
  IF S = {} THEN <<>> ELSE <<Min(S)>> \o InOrder(S \ {Min(S)})

\* root.querySelectorAll('[data-swiper="<r>"]'): the descendants of root with that role
querySelectorAll(root, r) ==
  InOrder({n \in Nodes : role[n] = r /\ root \in Ancestors(n)})

FirstOrNull(all) == IF all = <<>> THEN 0 ELSE all[1]

\* root.querySelector(...): the first of them, 0 for null
querySelector(root, r) == FirstOrNull(querySelectorAll(root, r))

\* node.matches('[data-swiper="component"]')
IsComponent(n) == role[n] = "component"

Components == {n \in Nodes : IsComponent(n)}

\* 'component' as the value of the data-swiper attribute
ComponentValue == <<"c", "o", "m", "p", "o", "n", "e", "n", "t">>

\* component.attributes, given whether the initialized-marker is set
Attributes(component, marked) ==
  <<<<ROLE_ATTR, ComponentValue>>>> \o attrs[component]
    \o (IF marked THEN <<<<INITIALIZED_ATTR, <<"t", "r", "u", "e">>>>>> ELSE <<>>)

-----------------------------------------------------------------------------
(* prepareSwiperElements, buildSwiperConfig *)

NoElements ==
  [container |-> 0, wrapper |-> 0, slides |-> <<>>, pagination |-> 0,
   navPrev |-> 0, navNext |-> 0]

\* What prepareSwiperElements leaves: thrown is the role whose element it missed
\* ("" when it returns), elements what it returns, cls every node's classList.
Thrown(role_, cls) == [thrown |-> role_, elements |-> NoElements, cls |-> cls]

\* SWIPER_CLASSES: the classes lines 399-416 add to node n
ClassesFor(n, elements) ==
  (IF n = elements.container THEN {"swiper"} ELSE {})
  \cup (IF n = elements.wrapper THEN {"swiper-wrapper"} ELSE {})
  \cup (IF \E i \in DOMAIN elements.slides : elements.slides[i] = n
        THEN {"swiper-slide"} ELSE {})
  \cup (IF n = elements.pagination THEN {"swiper-pagination"} ELSE {})
  \cup (IF n = elements.navPrev THEN {"swiper-button-prev"} ELSE {})
  \cup (IF n = elements.navNext THEN {"swiper-button-next"} ELSE {})

\* lines 398-418
AddClasses(cls, elements) ==
  [thrown |-> "", elements |-> elements,
   cls |-> [n \in DOMAIN cls |-> cls[n] \cup ClassesFor(n, elements)]]

\* FindOptional looking for the optional elements below the container
FindOptionalInContainer(cls, component, container, wrapper, slides) ==
  IF slides = <<>> THEN Thrown("slides", cls)
  ELSE AddClasses(cls,
         [container |-> container, wrapper |-> wrapper, slides |-> slides,
          pagination |-> querySelector(container, "pagination"),
          navPrev |-> querySelector(container, "nav-prev"),
          navNext |-> querySelector(container, "nav-next")])

\* lines 383-396
FindOptional(cls, component, container, wrapper, slides) ==
  IF slides = <<>> THEN Thrown("slides", cls)
  ELSE AddClasses(cls,
         [container |-> container, wrapper |-> wrapper, slides |-> slides,
          pagination |-> querySelector(component, "pagination"),
          navPrev |-> querySelector(component, "nav-prev"),
          navNext |-> querySelector(component, "nav-next")])

\* lines 377-382
FindSlides(cls, component, container, wrapper) ==
  IF wrapper = 0 THEN Thrown("wrapper", cls)
  ELSE FindOptional(cls, component, container, wrapper,
                    querySelectorAll(wrapper, "slide"))

\* lines 371-376
FindWrapper(cls, component, container) ==
  IF container = 0 THEN Thrown("container", cls)
  ELSE FindSlides(cls, component, container, querySelector(container, "wrapper"))

\* prepareSwiperElements adding each element's class as soon as it is found
prepareAddingAsFound(cls, component) ==
  IF querySelector(component, "container") = 0
  THEN FindWrapper(cls, component, 0)
  ELSE FindWrapper([cls EXCEPT ![querySelector(component, "container")] =
                                 @ \cup {"swiper"}],
                   component, querySelector(component, "container"))

prepareSwiperElements(cls, component) ==
  FindWrapper(cls, component, querySelector(component, "container"))

\* config.<key> || {}
OrEmpty(config, key) ==
  IF key \in DOMAIN config /\ Truthy(config[key]) THEN config[key] ELSE EmptyObject

AUTOPLAY_DELAY == 3000

\* BindPagination as `config.pagination = config.pagination || {...}`
BindPaginationUnlessSet(config, elements) ==
  IF elements.pagination # 0 /\ ~(kPagination \in DOMAIN config
                                   /\ Truthy(config[kPagination]))
  THEN Put(config, kPagination,
           Obj((kEl :> Elem(elements.pagination)) @@ (kClickable :> Bool(TRUE))))
  ELSE config

\* lines 440-448
BindPagination(config, elements) ==
  IF elements.pagination # 0
  THEN Put(config, kPagination,
           deepMerge(Obj((kEl :> Elem(elements.pagination))
                         @@ (kClickable :> Bool(TRUE))),
                     OrEmpty(config, kPagination)))
  ELSE config

\* BindNavigation with || for the && of line 452
BindNavigationIfEither(config, elements) ==
  IF elements.navPrev # 0 \/ elements.navNext # 0
  THEN Put(config, kNavigation,
           deepMerge(Obj((kPrevEl :> IF elements.navPrev # 0
                                     THEN Elem(elements.navPrev) ELSE Null)
                         @@ (kNextEl :> IF elements.navNext # 0
                                        THEN Elem(elements.navNext) ELSE Null)),
                     OrEmpty(config, kNavigation)))
  ELSE config

\* lines 452-460
BindNavigation(config, elements) ==
  IF elements.navPrev # 0 /\ elements.navNext # 0
  THEN Put(config, kNavigation,
           deepMerge(Obj((kPrevEl :> Elem(elements.navPrev))
                         @@ (kNextEl :> Elem(elements.navNext))),
                     OrEmpty(config, kNavigation)))
  ELSE config

\* lines 464-469
ExpandAutoplay(config) ==
  IF kAutoplay \in DOMAIN config /\ config[kAutoplay] = Bool(TRUE)
  THEN Put(config, kAutoplay,
           Obj((kDelay :> Num(AUTOPLAY_DELAY, 0))
               @@ (kDisableOnInteraction :> Bool(FALSE))))
  ELSE config

\* lines 436-471 for a config that starts as the object start
Assemble(start, elements) ==
  Obj(ExpandAutoplay(BindNavigation(BindPagination(start.o, elements), elements)))

\* what buildSwiperConfig leaves: config is the object returned, parsedConfig
\* the argument object after the call
Built(config, parsedConfig) == [config |-> config, parsedConfig |-> parsedConfig]

\* buildSwiperConfig with line 436 as `const config = parsedConfig`
buildWithoutCopy(parsedConfig, elements) ==
  Built(Assemble(parsedConfig, elements), Assemble(parsedConfig, elements))

\* line 436 copies parsedConfig, the assignments go to the copy
buildSwiperConfig(parsedConfig, elements) ==
  Built(Assemble(parsedConfig, elements), parsedConfig)

-----------------------------------------------------------------------------
(* The lifecycle: initialize, destroy, reinitialize, initialize all *)

\* What these functions read and write: st.classes, st.marker, st.handle,
\* st.instances, st.sinceDestroy are the variables of the same names.
Here ==
  [classes |-> classes, marker |-> marker, handle |-> handle,
   instances |-> instances, sinceDestroy |-> sinceDestroy]

\* what a call can change of the page, for the record of the call
Snapshot(st) ==
  [classes |-> st.classes, marker |-> st.marker, handle |-> st.handle,
   constructed |-> Len(st.instances),
   destroyed |-> [i \in DOMAIN st.instances |-> st.instances[i].destroyed]]

\* what a call worked out: the resolved configuration, the elements, the final
\* configuration (Undefined and NoElements for what it did not get to)
\* parsed is what parseConfiguration returned, parsedAfter the same object when
\* the call ends
Work(parsed, elements, built) ==
  [parsed |-> parsed, elements |-> elements, final |-> built.config,
   parsedAfter |-> built.parsedConfig]

NoWork == Work(Undefined, NoElements, Built(Undefined, Undefined))

\* The record of one call of initializeSwiperComponent or destroySwiperComponent:
\* result is the instance returned (0 for null or nothing), ctor tells whether the
\* constructor was invoked ("none", "returned", "threw"), error is what was thrown
\* and caught ("" for nothing, "already" for the already-initialized return).
Call(op, component, pre, post, result, ctor, error, work) ==
  [op |-> op, comp |-> component, pre |-> Snapshot(pre), post |-> Snapshot(post),
   invokedBefore |-> component \in pre.sinceDestroy.invoked,
   returnedBefore |-> component \in pre.sinceDestroy.returned,
   result |-> result, ctor |-> ctor, error |-> error,
   work |-> work]

\* what a call leaves: the page's state, the value returned, the call's record
Outcome(st, result, call) == [st |-> st, result |-> result, call |-> call]

\* lines 512-522: the constructor returned the instance st3.instances has last
Bound(st, st3, component, work) ==
  Outcome(st3, Len(st3.instances),
          Call("initialize", component, st, st3, Len(st3.instances), "returned", "",
               work))

\* Construct without line 512: the marker is never set
ConstructWithoutMarker(st, st2, component, throws, work) ==
  IF throws
  THEN Outcome(st2, 0,
               Call("initialize", component, st, st2, 0, "threw", "constructor", work))
  ELSE Bound(st,
             [st2 EXCEPT !.instances = Append(@,
                            [component |-> component, el |-> work.elements.container,
                             params |-> work.final, destroyed |-> 0]),
                         !.handle[component] = Len(st2.instances) + 1,
                         !.sinceDestroy.returned = @ \cup {component}],
             component, work)

\* line 509, st2 the state when the constructor is invoked
Construct(st, st2, component, throws, work) ==
  IF throws
  THEN Outcome(st2, 0,
               Call("initialize", component, st, st2, 0, "threw", "constructor", work))
  ELSE Bound(st,
             [st2 EXCEPT !.instances = Append(@,
                            [component |-> component, el |-> work.elements.container,
                             params |-> work.final, destroyed |-> 0]),
                         !.marker[component] = TRUE,
                         !.handle[component] = Len(st2.instances) + 1,
                         !.sinceDestroy.returned = @ \cup {component}],
             component, work)

\* lines 497-509, prep what prepareSwiperElements left
Prepared(st, component, throws, parsedConfig, prep) ==
  IF prep.thrown # ""
  THEN Outcome([st EXCEPT !.classes = prep.cls], 0,
               Call("initialize", component, st, [st EXCEPT !.classes = prep.cls], 0,
                    "none", prep.thrown, Work(parsedConfig, NoElements, Built(Undefined, parsedConfig))))
  ELSE Construct(st,
                 [st EXCEPT !.classes = prep.cls, !.sinceDestroy.invoked = @ \cup {component}],
                 component, throws,
                 Work(parsedConfig, prep.elements,
                      buildSwiperConfig(parsedConfig, prep.elements)))

\* lines 488-527: initializeSwiperComponent after its test of the marker.
\* throws: whether new Swiper(...) throws, if this call gets to invoke it
InitializeUnmarked(st, component, throws) ==
  IF ~swiperLoaded
  THEN Outcome(st, 0,
               Call("initialize", component, st, st, 0, "none", "library", NoWork))
  ELSE Prepared(st, component, throws,
                parseConfiguration(Attributes(component, st.marker[component])),
                prepareSwiperElements(st.classes, component))

\* initializeSwiperComponent without the test of lines 483-486
initializeWithoutGuard(st, component, throws) ==
  InitializeUnmarked(st, component, throws)

\* initializeSwiperComponent keeping a component whose constructor threw out of
\* every later attempt
initializeUnlessFailed(st, component, throws) ==
  IF st.marker[component]
  THEN Outcome(st, 0,
               Call("initialize", component, st, st, 0, "none", "already", NoWork))
  ELSE IF component \in st.sinceDestroy.invoked \ st.sinceDestroy.returned
  THEN Outcome(st, 0,
               Call("initialize", component, st, st, 0, "none", "failed", NoWork))
  ELSE InitializeUnmarked(st, component, throws)

initializeSwiperComponent(st, component, throws) ==
  IF st.marker[component]
  THEN Outcome(st, 0,
               Call("initialize", component, st, st, 0, "none", "already", NoWork))
  ELSE InitializeUnmarked(st, component, throws)

\* st2: the state after the call
Destroyed(st, st2, component) ==
  [st |-> st2,
   call |-> Call("destroy", component, st, st2, st.handle[component], "none", "",
                 NoWork)]

\* since with the component's destroySwiperComponent call taken into account
NotSince(since, component) ==
  [invoked |-> since.invoked \ {component},
   returned |-> since.returned \ {component}]

\* destroySwiperComponent without line 568: the handle stays
destroyKeepingHandle(st, component) ==
  IF st.handle[component] # 0
  THEN Destroyed(st,
                 [st EXCEPT !.instances[st.handle[component]].destroyed = @ + 1,
                            !.marker[component] = FALSE,
                            !.sinceDestroy = NotSince(@, component)],
                 component)
  ELSE Destroyed(st, [st EXCEPT !.sinceDestroy = NotSince(@, component)], component)

\* destroySwiperComponent without line 567: the marker stays
destroyKeepingMarker(st, component) ==
  IF st.handle[component] # 0
  THEN Destroyed(st,
                 [st EXCEPT !.instances[st.handle[component]].destroyed = @ + 1,
                            !.handle[component] = 0,
                            !.sinceDestroy = NotSince(@, component)],
                 component)
  ELSE Destroyed(st, [st EXCEPT !.sinceDestroy = NotSince(@, component)], component)

destroySwiperComponent(st, component) ==
  IF st.handle[component] # 0
  THEN Destroyed(st,
                 [st EXCEPT !.instances[st.handle[component]].destroyed = @ + 1,
                            !.marker[component] = FALSE,
                            !.handle[component] = 0,
                            !.sinceDestroy = NotSince(@, component)],
                 component)
  ELSE Destroyed(st, [st EXCEPT !.sinceDestroy = NotSince(@, component)], component)

\* the two calls of reinitializeSwiperComponent, d and i what each left
Both(d, i) == [st |-> i.st, result |-> i.result, calls |-> <<d.call, i.call>>]

\* line 582, d what destroySwiperComponent left
InitializeAfter(d, component, throws) ==
  Both(d, initializeSwiperComponent(d.st, component, throws))

\* reinitializeSwiperComponent without the destroy of line 581
reinitializeWithoutDestroy(st, component, throws) ==
  InitializeAfter(Destroyed(st, st, component), component, throws)

reinitializeSwiperComponent(st, component, throws) ==
  InitializeAfter(destroySwiperComponent(st, component), component, throws)

\* Collect with unshift for the push of line 550
CollectInFront(acc, r) ==
  [st |-> r.st,
   result |-> IF r.result # 0 THEN <<r.result>> \o acc.result ELSE acc.result,
   calls |-> Append(acc.calls, r.call)]

\* lines 548-551: r is what initializeSwiperComponent left
Collect(acc, r) ==
  [st |-> r.st,
   result |-> IF r.result # 0 THEN Append(acc.result, r.result) ELSE acc.result,
   calls |-> Append(acc.calls, r.call)]

RECURSIVE InitializeEachUntilFailure(_, _, _, _)
\* the forEach without the try/catch of lines 481 and 524: the first exception
\* ends the pass
InitializeEachUntilFailure(components, k, throwing, acc) ==
  IF k > Len(components) \/ (acc.calls # <<>> /\ acc.calls[Len(acc.calls)].error
                                                   \notin {"", "already"})
  THEN acc
  ELSE InitializeEachUntilFailure(components, k + 1, throwing,
         Collect(acc, initializeSwiperComponent(acc.st, components[k],
                                                components[k] \in throwing)))

RECURSIVE InitializeEach(_, _, _, _)
\* the forEach of lines 546-552 from the k-th component on; acc is what the
\* earlier iterations made: the state, the instances pushed, the calls
InitializeEach(components, k, throwing, acc) ==
  IF k > Len(components) THEN acc
  ELSE InitializeEach(components, k + 1, throwing,
         Collect(acc, initializeSwiperComponent(acc.st, components[k],
                                                components[k] \in throwing)))

\* throwing: the components for which new Swiper(...) throws in this pass
initializeAllSwipers(st, throwing) ==
  InitializeEach(querySelectorAll(0, "component"), 1, throwing,
                 [st |-> st, result |-> <<>>, calls |-> <<>>])

-----------------------------------------------------------------------------
(* Documents *)

\* the most nodes a document has
MaxNodes == 5
\* the most instances constructed in one behaviour
MaxInstances == 2

\* A fragment of markup: role[i] is the data-swiper value of its i-th node in
\* document order, parent[i] the node's parent in the fragment (0 for the
\* fragment's own root).
Fragment(r, p) == [role |-> r, parent |-> p]

FValid == Fragment(<<"component", "container", "wrapper", "slide">>, <<0, 1, 2, 3>>)
FBare == Fragment(<<"component">>, <<0>>)
FNoWrapper == Fragment(<<"component", "container">>, <<0, 1>>)
FNoSlides == Fragment(<<"component", "container", "wrapper">>, <<0, 1, 2>>)
FDivValid ==
  Fragment(<<"none", "component", "container", "wrapper", "slide">>, <<0, 1, 2, 3, 4>>)

PageFragments == {FValid, FBare, FNoWrapper, FNoSlides, FDivValid}

EmptyDocument == [role |-> <<>>, parent |-> <<>>, roots |-> {}]

\* d with fragment f put under node u (0: under document.body), after d's nodes
Place(d, f, u) ==
  LET k == Len(d.role)
  IN  [role |-> d.role \o f.role,
       parent |-> d.parent \o [i \in DOMAIN f.role |->
                                 IF f.parent[i] = 0 THEN u ELSE f.parent[i] + k],
       roots |-> d.roots \cup {k + 1}]

RECURSIVE UpFrom(_, _)
\* n and its ancestors in d
UpFrom(d, n) == IF n = 0 THEN {} ELSE {n} \cup UpFrom(d, d.parent[n])

\* where a fragment can go so that it comes last in document order
Last(d) == {0} \cup UpFrom(d, Len(d.role))

\* the documents of one or two fragments
OneFragment == {Place(EmptyDocument, f, 0) : f \in PageFragments}

TwoFragments ==
  UNION {UNION {{Place(d, f, u) : u \in Last(d)} : f \in PageFragments}
         : d \in OneFragment}

Documents == {d \in OneFragment \cup TwoFragments : Len(d.role) <= MaxNodes}

-----------------------------------------------------------------------------
(* The state and its steps *)

Pending == [t |-> "pending"]

Returned(kind, id, list) == [kind |-> kind, id |-> id, list |-> list]
Nothing == Returned("undefined", 0, <<>>)
\* what initializeSwiperComponent's result is to the caller
InstanceOrNull(id) == IF id = 0 THEN Returned("null", 0, <<>>)
                      ELSE Returned("instance", id, <<>>)

NotApplied == arg = <<>> /\ out = Pending

\* the page as the script finds it: nothing initialized, nothing constructed
Fresh ==
  /\ classes = [n \in Nodes |-> {}]
  /\ marker = [n \in Nodes |-> FALSE]
  /\ handle = [n \in Nodes |-> 0]
  /\ instances = <<>>
  /\ registry = [set |-> FALSE, list |-> <<>>]
  /\ sinceDestroy = [invoked |-> {}, returned |-> {}]
  /\ started = FALSE
  /\ observing = FALSE
  /\ queue = <<>>
  /\ calls = <<>>
  /\ ret = Nothing
  /\ step = ""

Init ==
  /\ \E d \in Documents :
       /\ role = d.role
       /\ parent = d.parent
       /\ detached \in SUBSET d.roots
  /\ attrs = [n \in Nodes |-> <<>>]
  /\ swiperLoaded = FALSE
  /\ Fresh
  /\ NotApplied

\* the page's state becomes st
Becomes(st) ==
  /\ Len(st.instances) <= MaxInstances
  /\ classes' = st.classes
  /\ marker' = st.marker
  /\ handle' = st.handle
  /\ instances' = st.instances
  /\ sinceDestroy' = st.sinceDestroy

\* the Swiper bundle's script has run
LoadSwiper ==
  /\ step' = "load"
  /\ ~swiperLoaded
  /\ swiperLoaded' = TRUE
  /\ calls' = <<>>
  /\ ret' = Nothing
  /\ UNCHANGED <<role, parent, detached, attrs, classes, marker, handle, instances,
                 registry, sinceDestroy, started, observing, queue, applied>>

\* the components a call of initializeSwiperComponent gets past lines 483-491
\* for (not marked, the library loaded): those new Swiper(...) can throw for
Invocable == IF swiperLoaded THEN {c \in Components : ~marker[c]} ELSE {}

\* those of them document.querySelectorAll finds, line 536
Visited == {c \in Invocable : InDocument(c)}

\* whether new Swiper(...) throws when a call on component c gets to invoke it
Throws(c) == IF c \in Invocable THEN BOOLEAN ELSE {FALSE}

\* the same for a call after destroySwiperComponent
ThrowsAfterDestroy == IF swiperLoaded THEN BOOLEAN ELSE {FALSE}

\* a pass of initializeAllSwipers that left r
Pass(r) == Becomes(r.st) /\ calls' = r.calls

\* lines 655 and 661
StartupPass(r) == Pass(r) /\ registry' = [set |-> TRUE, list |-> r.result]

\* init(), lines 651-664; setupMutationObserver observes when
\* typeof MutationObserver !== 'undefined'
Startup ==
  /\ step' = "startup"
  /\ ~started
  /\ \E throwing \in SUBSET Visited :
       StartupPass(initializeAllSwipers(Here, throwing))
  /\ observing' \in BOOLEAN
  /\ started' = TRUE
  /\ ret' = Nothing
  /\ UNCHANGED <<role, parent, detached, attrs, swiperLoaded, queue, applied>>

ApiPass(r) == Pass(r) /\ ret' = Returned("list", 0, r.result)

\* WebflowSwiper.init()
ApiInit ==
  /\ step' = "init"
  /\ \E throwing \in SUBSET Visited :
       ApiPass(initializeAllSwipers(Here, throwing))
  /\ UNCHANGED <<role, parent, detached, attrs, registry, swiperLoaded, started,
                 observing, queue, applied>>

\* one call that left r, its result returned to the caller
OneCall(r) ==
  Becomes(r.st) /\ calls' = <<r.call>> /\ ret' = InstanceOrNull(r.result)

\* one call that left r, nothing returned
OneCallNoResult(r) == Becomes(r.st) /\ calls' = <<r.call>> /\ ret' = Nothing

\* reinitializeSwiperComponent left r
TwoCalls(r) == Pass(r) /\ ret' = InstanceOrNull(r.result)

\* WebflowSwiper.initComponent(component)
ApiInitComponent(component) ==
  /\ step' = "initComponent"
  /\ \E throws \in Throws(component) :
       OneCall(initializeSwiperComponent(Here, component, throws))
  /\ UNCHANGED <<role, parent, detached, attrs, registry, swiperLoaded, started,
                 observing, queue, applied>>

\* WebflowSwiper.destroyComponent(component)
ApiDestroyComponent(component) ==
  /\ step' = "destroyComponent"
  /\ OneCallNoResult(destroySwiperComponent(Here, component))
  /\ UNCHANGED <<role, parent, detached, attrs, registry, swiperLoaded, started,
                 observing, queue, applied>>

\* WebflowSwiper.reinitComponent(component)
ApiReinitComponent(component) ==
  /\ step' = "reinitComponent"
  /\ \E throws \in ThrowsAfterDestroy :
       TwoCalls(reinitializeSwiperComponent(Here, component, throws))
  /\ UNCHANGED <<role, parent, detached, attrs, registry, swiperLoaded, started,
                 observing, queue, applied>>

\* A script inserts the detached subtree n under its parent.  The observer gets
\* a MutationRecord (addedNodes: n) when it observes and the parent is in the
\* document.
Insert(n) ==
  /\ step' = "insert"
  /\ n \in detached
  /\ detached' = detached \ {n}
  /\ queue' = IF observing /\ (parent[n] = 0 \/ InDocument(parent[n]))
              THEN Append(queue, <<n>>) ELSE queue
  /\ calls' = <<>>
  /\ ret' = Nothing
  /\ UNCHANGED <<role, parent, attrs, classes, marker, handle, instances, registry,
                 swiperLoaded, sinceDestroy, started, observing, applied>>

\* lines 607-623: what one added node makes of hasNewComponents
\* the test of lines 607-623 made on the document instead of the added node
IsNewInDocument(node) ==
  \E n \in Nodes : IsComponent(n) /\ ~marker[n] /\ InDocument(n)

IsNew(node) ==
  IF IsComponent(node) THEN ~marker[node]
  ELSE \E n \in Nodes : IsComponent(n) /\ ~marker[n] /\ node \in Ancestors(n)

\* lines 602-625: hasNewComponents after the records in mutations
HasNewComponents(mutations) ==
  \E i \in DOMAIN mutations : \E j \in DOMAIN mutations[i] : IsNew(mutations[i][j])

\* the observer's callback, lines 601-632, with every record not yet delivered
ObserverCallback ==
  /\ step' = IF HasNewComponents(queue) THEN "observer" ELSE "observerIdle"
  /\ queue # <<>>
  /\ queue' = <<>>
  /\ IF HasNewComponents(queue)
     THEN \E throwing \in SUBSET Visited :
            Pass(initializeAllSwipers(Here, throwing))
     ELSE /\ calls' = <<>>
          /\ UNCHANGED <<classes, marker, handle, instances, sinceDestroy>>
  /\ ret' = Nothing
  /\ UNCHANGED <<role, parent, detached, attrs, registry, swiperLoaded, started,
                 observing, applied>>

Next ==
  \/ LoadSwiper
  \/ Startup
  \/ ApiInit
  \/ \E c \in Components : ApiInitComponent(c)
  \/ \E c \in Components : ApiDestroyComponent(c)
  \/ \E c \in Components : ApiReinitComponent(c)
  \/ \E n \in Nodes : Insert(n)
  \/ ObserverCallback

Spec == Init /\ [][Next]_vars

-----------------------------------------------------------------------------
(* parseValue on its own *)

MaxCoerceLen == 3

CoerceAlphabet == {"0", "1", ".", "-", "{", "}", "[", "]", "\"", "a"}

\* attribute values longer than MaxCoerceLen
LongValues ==
  {<<"t", "r", "u", "e">>,
   <<"f", "a", "l", "s", "e">>,
   <<"T", "r", "u", "e">>,
   <<"n", "u", "l", "l">>,
   <<"{", "\"", "a", "\"", ":", "1", "}">>,
   <<"{", "\"", "a", "\"", ":", "1", ",", "\"", "b", "\"", ":", "[", "2", "]", "}">>,
   <<"{", "\"", "a", "\"", ":", "{", "\"", "b", "\"", ":", "t", "r", "u", "e", "}", "}">>,
   <<"[", "1", ",", "2", "]">>,
   <<"[", "t", "r", "u", "e", "]">>,
   <<"[", "n", "u", "l", "l", "]">>,
   <<"[", "-", "1", "]">>,
   <<"[", "1", ".", "5", "]">>,
   <<"{", "b", "a", "d", "}">>,
   <<"{", "\"", "a", "\"", ":", "}">>,
   <<"{", "\"", "a", "\"", ":", "1">>,
   <<"3", ".", "5">>,
   <<"1", ".", "5", "0">>,
   <<"1", "2", ".">>,
   <<"-", "5">>,
   <<"-", "1", ".", "5">>,
   <<"1", "2", "p", "x">>,
   <<"0", "0", "0", "7">>,
   <<"1", "2", "3", "4", "5">>,
   <<"t", "r", "u", "e", "x">>,
   <<"[", "\"", "a", "\"", "]">>,
   <<"[", "0", "1", "]">>,
   <<"{", "\"", "a", "\"", ":", "1", "}", "x">>}

CoerceInputs ==
  UNION {[1..n -> CoerceAlphabet] : n \in 0..MaxCoerceLen} \cup LongValues

\* no document, nothing applied
NoPage ==
  /\ role = <<>>
  /\ parent = <<>>
  /\ detached = {}
  /\ attrs = <<>>
  /\ swiperLoaded = FALSE
  /\ Fresh

InitCoerce ==
  /\ NoPage
  /\ arg \in CoerceInputs
  /\ out = Pending

\* parseValue(arg)
Coerce ==
  /\ out = Pending
  /\ out' = parseValue(arg)
  /\ step' = "parseValue"
  /\ UNCHANGED <<role, parent, detached, attrs, classes, marker, handle, instances,
                 registry, swiperLoaded, sinceDestroy, started, observing, queue,
                 calls, ret, arg>>

SpecCoerce == InitCoerce /\ [][Coerce]_vars

-----------------------------------------------------------------------------
(* deepMerge on its own *)

kA == <<"a">>
kB == <<"b">>

\* values that are no plain objects
MergeLeaves ==
  {Num(1, 0), Bool(FALSE), Null, Str(<<"x", "y">>), Arr(<<Num(2, 0)>>)}

\* plain objects of numbers
MergeInner ==
  {EmptyObject} \cup {Obj(k :> v) : k \in {kA, kB}, v \in {Num(1, 0), Num(2, 0)}}

\* plain objects with keys among a and b, and one that has a key of
\* Object.prototype's for its own
MergeObjects ==
  {Obj(o) : o \in UNION {[keys -> MergeLeaves \cup MergeInner] : keys \in SUBSET {kA, kB}}}
  \cup {Obj(kConstructor :> Obj(kA :> Num(1, 0)))}

MergeInputs == MergeObjects \cup MergeLeaves

InitMerge ==
  /\ NoPage
  /\ arg \in MergeInputs \X MergeInputs
  /\ out = Pending

\* deepMerge(target, source)
Merge ==
  /\ out = Pending
  /\ out' = deepMerge(arg[1], arg[2])
  /\ step' = "deepMerge"
  /\ UNCHANGED <<role, parent, detached, attrs, classes, marker, handle, instances,
                 registry, swiperLoaded, sinceDestroy, started, observing, queue,
                 calls, ret, arg>>

SpecMerge == InitMerge /\ [][Merge]_vars

-----------------------------------------------------------------------------
(* One component with attributes *)

MaxAttrs == 2

\* the attribute data-swiper-<option>="<value>"
Option(option, value) == <<CONFIG_ATTR_PREFIX \o option, value>>

\* attributes a page may put on a component
AttributePool ==
  <<
     Option(<<"s", "l", "i", "d", "e", "s", "-", "p", "e", "r", "-", "v", "i", "e", "w">>,
            <<"1">>),
     Option(<<"s", "l", "i", "d", "e", "s", "-", "p", "e", "r", "-", "v", "i", "e", "w">>,
            <<"3">>),
     Option(<<"l", "o", "o", "p">>,
            <<"t", "r", "u", "e">>),
     Option(<<"s", "p", "a", "c", "e", "-", "b", "e", "t", "w", "e", "e", "n">>,
            <<"1", ".", "5">>),
     Option(<<"s", "l", "i", "d", "e", "s", "-", "p", "e", "r", "-", "v", "i", "e", "w", "-", "t", "a", "b", "l", "e", "t">>,
            <<"2">>),
     Option(<<"s", "l", "i", "d", "e", "s", "-", "p", "e", "r", "-", "v", "i", "e", "w", "-", "d", "e", "s", "k", "t", "o", "p">>,
            <<"4">>),
     Option(<<"s", "p", "a", "c", "e", "-", "b", "e", "t", "w", "e", "e", "n", "-", "m", "o", "b", "i", "l", "e", "-", "l", "a", "n", "d", "s", "c", "a", "p", "e">>,
            <<"8">>),
     Option(<<"l", "o", "o", "p", "-", "m", "o", "b", "i", "l", "e", "-", "p", "o", "r", "t", "r", "a", "i", "t">>,
            <<"t", "r", "u", "e">>),
     Option(<<"-", "t", "a", "b", "l", "e", "t">>,
            <<"2">>),
     Option(<<"t", "a", "b", "l", "e", "t">>,
            <<"2">>),
     Option(<<"b", "r", "e", "a", "k", "p", "o", "i", "n", "t", "s">>,
            <<"{", "\"", "7", "6", "8", "\"", ":", "{", "\"", "l", "o", "o", "p", "\"", ":", "t", "r", "u", "e", "}", "}">>),
     Option(<<"p", "a", "g", "i", "n", "a", "t", "i", "o", "n">>,
            <<"t", "r", "u", "e">>),
     Option(<<"p", "a", "g", "i", "n", "a", "t", "i", "o", "n">>,
            <<"f", "a", "l", "s", "e">>),
     Option(<<"p", "a", "g", "i", "n", "a", "t", "i", "o", "n">>,
            <<"{", "\"", "t", "y", "p", "e", "\"", ":", "\"", "b", "\"", "}">>),
     Option(<<"p", "a", "g", "i", "n", "a", "t", "i", "o", "n">>,
            <<"{", "\"", "e", "l", "\"", ":", "\"", ".", "p", "\"", "}">>),
     Option(<<"p", "a", "g", "i", "n", "a", "t", "i", "o", "n">>,
            <<"{", "\"", "e", "l", "\"", ":", "{", "\"", "a", "\"", ":", "1", "}", "}">>),
     Option(<<"p", "a", "g", "i", "n", "a", "t", "i", "o", "n">>,
            <<"{", "\"", "c", "l", "i", "c", "k", "a", "b", "l", "e", "\"", ":", "f", "a", "l", "s", "e", "}">>),
     Option(<<"n", "a", "v", "i", "g", "a", "t", "i", "o", "n">>,
            <<"t", "r", "u", "e">>),
     Option(<<"n", "a", "v", "i", "g", "a", "t", "i", "o", "n">>,
            <<"{", "\"", "p", "r", "e", "v", "E", "l", "\"", ":", "\"", ".", "x", "\"", "}">>),
     Option(<<"n", "a", "v", "i", "g", "a", "t", "i", "o", "n">>,
            <<"{", "\"", "h", "i", "d", "e", "O", "n", "C", "l", "i", "c", "k", "\"", ":", "t", "r", "u", "e", "}">>),
     Option(<<"a", "u", "t", "o", "p", "l", "a", "y">>,
            <<"t", "r", "u", "e">>),
     Option(<<"a", "u", "t", "o", "p", "l", "a", "y">>,
            <<"f", "a", "l", "s", "e">>),
     Option(<<"a", "u", "t", "o", "p", "l", "a", "y">>,
            <<"5">>),
     Option(<<"a", "u", "t", "o", "p", "l", "a", "y">>,
            <<"a", "b", "c">>),
     Option(<<"a", "u", "t", "o", "p", "l", "a", "y">>,
            <<"{", "\"", "d", "e", "l", "a", "y", "\"", ":", "1", "0", "0", "0", "}">>),
     <<<<"d", "a", "t", "a", "-", "f", "o", "o", "-", "t", "a", "b", "l", "e", "t">>, <<"2">>>>
  >>

RECURSIVE Pick(_, _)
\* the attributes of the pool at the positions in S, in the pool's order
Pick(S, i) ==
  IF i > Len(AttributePool) THEN <<>>
  ELSE (IF i \in S THEN <<AttributePool[i]>> ELSE <<>>) \o Pick(S, i + 1)

RECURSIVE Reverse(_)
Reverse(q) == IF q = <<>> THEN <<>> ELSE Reverse(Tail(q)) \o <<q[1]>>

\* an element has one attribute of a name
DistinctNames(S) ==
  \A i, j \in S : i # j => AttributePool[i][1] # AttributePool[j][1]

\* the README's example of responsive attributes
CascadeExample ==
  <<Option(<<"s", "l", "i", "d", "e", "s", "-", "p", "e", "r", "-", "v", "i", "e", "w">>, <<"1">>),
    Option(<<"s", "l", "i", "d", "e", "s", "-", "p", "e", "r", "-", "v", "i", "e", "w", "-", "t", "a", "b", "l", "e", "t">>, <<"2">>),
    Option(<<"s", "l", "i", "d", "e", "s", "-", "p", "e", "r", "-", "v", "i", "e", "w", "-", "d", "e", "s", "k", "t", "o", "p">>, <<"4">>)>>

RECURSIVE Choices(_)
\* the sets of at most k positions of the pool
Choices(k) ==
  IF k = 0 THEN {{}}
  ELSE Choices(k - 1)
       \cup {c[1] \cup {c[2]} : c \in Choices(k - 1) \X DOMAIN AttributePool}

AttributeChoices == {S \in Choices(MaxAttrs) : DistinctNames(S)}

AttributeLists ==
  {Pick(S, 1) : S \in AttributeChoices}
  \cup {Reverse(Pick(S, 1)) : S \in AttributeChoices}
  \cup {CascadeExample}

\* the binding attributes alone
BindingLists ==
  {l \in AttributeLists :
     \A i \in DOMAIN l : l[i][1] \in {CONFIG_ATTR_PREFIX \o kPagination,
                                      CONFIG_ATTR_PREFIX \o kNavigation,
                                      CONFIG_ATTR_PREFIX \o kAutoplay}}

\* three slides, no optional element
ThreeSlides ==
  Fragment(<<"component", "container", "wrapper", "slide", "slide", "slide">>,
           <<0, 1, 2, 3, 3, 3>>)
\* pagination inside the container
PaginationNested ==
  Fragment(<<"component", "container", "wrapper", "slide", "pagination">>,
           <<0, 1, 2, 3, 2>>)
\* pagination and both buttons beside the container
AllBeside ==
  Fragment(<<"component", "container", "wrapper", "slide", "pagination", "nav-prev",
             "nav-next">>,
           <<0, 1, 2, 3, 1, 1, 1>>)
LonePrev ==
  Fragment(<<"component", "container", "wrapper", "slide", "nav-prev">>,
           <<0, 1, 2, 3, 1>>)
LoneNextWithPagination ==
  Fragment(<<"component", "container", "wrapper", "slide", "nav-next", "pagination">>,
           <<0, 1, 2, 3, 1, 1>>)
PaginationNoWrapper ==
  Fragment(<<"component", "container", "pagination">>, <<0, 1, 1>>)

\* a pagination element beside the container, before it, and one inside it
PaginationTwice ==
  Fragment(<<"component", "pagination", "container", "wrapper", "slide", "pagination">>,
           <<0, 1, 1, 3, 4, 3>>)
\* both buttons inside the container
NavNested ==
  Fragment(<<"component", "container", "wrapper", "slide", "nav-prev", "nav-next">>,
           <<0, 1, 2, 3, 2, 2>>)

OptionalTemplates ==
  {PaginationNested, AllBeside, LonePrev, LoneNextWithPagination, PaginationNoWrapper,
   PaginationTwice, NavNested}

\* the pages of one component: its structure and its attributes
ComponentPages ==
  ({ThreeSlides} \X AttributeLists) \cup (OptionalTemplates \X BindingLists)

InitResolve ==
  /\ \E page \in ComponentPages :
       /\ role = page[1].role
       /\ parent = [n \in DOMAIN page[1].role |->
                      IF page[1].parent[n] = 0 THEN 0 ELSE page[1].parent[n]]
       /\ attrs = [n \in DOMAIN page[1].role |-> IF n = 1 THEN page[2] ELSE <<>>]
  /\ detached = {}
  /\ swiperLoaded = TRUE
  /\ Fresh
  /\ NotApplied

\* what parseConfiguration makes of attributes, and what the
\* buildBreakpointsFromAttributes call of line 338 returned to it
ResolvedOf(parsed, breakpointsFromAttrs) ==
  [config |-> parsed.config, breakpointsFromAttrs |-> breakpointsFromAttrs,
   defaults |-> parsed.defaults]

\* what DEFAULT_CONFIG names now: what the last call of parseConfiguration left
Defaults == IF out = Pending THEN DEFAULT_CONFIG ELSE out.defaults

Resolved(attributes) ==
  ResolvedOf(parseConfigurationWith(Defaults, attributes),
             buildBreakpointsFromAttributes(attributes))

\* parseConfiguration(component), whatever the component's state
ApplyParseConfiguration(component) ==
  /\ arg' = Attributes(component, marker[component])
  /\ out' = Resolved(Attributes(component, marker[component]))
  /\ step' = "parseConfiguration"
  /\ calls' = <<>>
  /\ ret' = Nothing
  /\ UNCHANGED <<role, parent, detached, attrs, classes, marker, handle, instances,
                 registry, swiperLoaded, sinceDestroy, started, observing, queue>>

NextResolve ==
  \/ \E c \in Components : ApiInitComponent(c)
  \/ \E c \in Components : ApplyParseConfiguration(c)

SpecResolve == InitResolve /\ [][NextResolve]_vars

\* One component resolved again and again while it is initialized and destroyed:
\* its attributes are one of the pool, none, or the cascade example.
OneAttribute == {<<AttributePool[i]>> : i \in DOMAIN AttributePool}

InitResolveAgain ==
  /\ \E attributes \in OneAttribute \cup {<<>>, CascadeExample} :
       /\ role = ThreeSlides.role
       /\ parent = ThreeSlides.parent
       /\ attrs = [n \in DOMAIN ThreeSlides.role |->
                     IF n = 1 THEN attributes ELSE <<>>]
  /\ detached = {}
  /\ swiperLoaded = TRUE
  /\ Fresh
  /\ NotApplied

NextResolveAgain ==
  \/ \E c \in Components : ApiInitComponent(c)
  \/ \E c \in Components : ApiDestroyComponent(c)
  \/ \E c \in Components : ApplyParseConfiguration(c)

SpecResolveAgain == InitResolveAgain /\ [][NextResolveAgain]_vars

\* One component with one tier attribute and a plain breakpoints attribute before
\* it, after it or not at all.  The options of the tier attributes: Swiper's, and
\* names with a tier's name inside.  The values of the breakpoints attribute: what coerces to a
\* boolean, a number, a string, an array and an object.
BreakpointsValues ==
  {<<"t", "r", "u", "e">>,
   <<"f", "a", "l", "s", "e">>,
   <<"5">>,
   <<"0">>,
   <<"a", "b">>,
   <<"{", "b", "a", "d", "}">>,
   <<"[", "1", "]">>,
   <<"{", "}">>,
   <<"{", "\"", "7", "6", "8", "\"", ":", "{", "\"", "l", "o", "o", "p", "\"", ":", "t", "r", "u", "e", "}", "}">>,
   <<"{", "\"", "4", "8", "0", "\"", ":", "{", "\"", "l", "o", "o", "p", "\"", ":", "t", "r", "u", "e", "}", "}">>,
   <<"{", "\"", "7", "6", "8", "\"", ":", "5", "}">>,
   <<"{", "\"", "7", "6", "8", "\"", ":", "{", "\"", "l", "o", "o", "p", "\"", ":", "t", "r", "u", "e", "}", ",", "\"", "x", "\"", ":", "1", "}">>}

TierAttributes ==
  {Option(<<"s", "l", "i", "d", "e", "s", "-", "p", "e", "r", "-", "v", "i", "e", "w", "-", "t", "a", "b", "l", "e", "t">>, <<"2">>),
   Option(<<"l", "o", "o", "p", "-", "t", "a", "b", "l", "e", "t">>, <<"f", "a", "l", "s", "e">>),
   Option(<<"s", "p", "a", "c", "e", "-", "b", "e", "t", "w", "e", "e", "n", "-", "m", "o", "b", "i", "l", "e", "-", "l", "a", "n", "d", "s", "c", "a", "p", "e">>, <<"8">>),
   Option(<<"x", "-", "t", "a", "b", "l", "e", "t", "-", "y", "-", "t", "a", "b", "l", "e", "t">>, <<"2">>),
   Option(<<"x", "-", "d", "e", "s", "k", "t", "o", "p", "-", "y", "-", "t", "a", "b", "l", "e", "t">>, <<"2">>),
   Option(<<"t", "a", "b", "l", "e", "t", "-", "x", "-", "t", "a", "b", "l", "e", "t">>, <<"2">>),
   Option(<<"x", "-", "d", "e", "s", "k", "t", "o", "p", "-", "d", "e", "s", "k", "t", "o", "p">>, <<"t", "r", "u", "e">>)}

BothOrders(first, second) == {<<first, second>>, <<second, first>>}

\* two attributes of the tablet tier, in the one and the other order
TierPairs ==
  BothOrders(Option(<<"x", "-", "t", "a", "b", "l", "e", "t", "-", "y", "-", "t", "a", "b", "l", "e", "t">>, <<"2">>),
             Option(<<"x", "-", "y", "-", "t", "a", "b", "l", "e", "t", "-", "t", "a", "b", "l", "e", "t">>, <<"3">>))
  \cup BothOrders(Option(<<"l", "o", "o", "p", "-", "t", "a", "b", "l", "e", "t">>, <<"f", "a", "l", "s", "e">>),
                  Option(<<"s", "l", "i", "d", "e", "s", "-", "p", "e", "r", "-", "v", "i", "e", "w", "-", "t", "a", "b", "l", "e", "t">>, <<"2">>))

\* a tier attribute alone, or with a plain breakpoints attribute, or two tier
\* attributes
BreakpointsLists ==
  UNION {BothOrders(Option(kBreakpoints, v), t) :
           v \in BreakpointsValues, t \in TierAttributes}
  \cup {<<t>> : t \in TierAttributes}
  \cup TierPairs

InitBreakpoints ==
  /\ \E attributes \in BreakpointsLists :
       /\ role = ThreeSlides.role
       /\ parent = ThreeSlides.parent
       /\ attrs = [n \in DOMAIN ThreeSlides.role |->
                     IF n = 1 THEN attributes ELSE <<>>]
  /\ detached = {}
  /\ swiperLoaded = TRUE
  /\ Fresh
  /\ NotApplied

SpecBreakpoints == InitBreakpoints /\ [][NextResolve]_vars

-----------------------------------------------------------------------------
(* The page left to itself: startup, insertions, the observer *)

\* parts of a component that a script inserts after the component itself
FSlide == Fragment(<<"slide">>, <<0>>)
FWrapper == Fragment(<<"wrapper", "slide">>, <<0, 1>>)
FContainer == Fragment(<<"container", "wrapper", "slide">>, <<0, 1, 2>>)

Parts == {FSlide, FWrapper, FContainer}

\* the documents of one fragment and one part put into it or next to it
WithPart ==
  UNION {UNION {{Place(d, f, u) : u \in Last(d)} : f \in Parts} : d \in OneFragment}

WatchedDocuments == {d \in Documents \cup WithPart : Len(d.role) <= MaxNodes}

\* the library is loaded before the script, as the message of line 490 asks
InitWatch ==
  /\ \E d \in WatchedDocuments :
       /\ role = d.role
       /\ parent = d.parent
       /\ detached \in SUBSET d.roots
  /\ attrs = [n \in Nodes |-> <<>>]
  /\ swiperLoaded = TRUE
  /\ Fresh
  /\ NotApplied

\* new Swiper(...) returned in every call of the last step that invoked it
ConstructorReturns == \A k \in DOMAIN calls : calls[k].ctor # "threw"

\* no call of the API: init on DOMContentLoaded (lines 755-760), the scripts'
\* insertions, the observer's callback
WatchStep ==
  \/ Startup
  \/ \E n \in Nodes : Insert(n)
  \/ ObserverCallback

NextWatch == WatchStep /\ ConstructorReturns'

\* the step of init: the only one that sets started
Starts == ~started /\ started' = TRUE

\* the step of the observer's callback: the only one that empties the queue
Delivers == queue # <<>> /\ queue' = <<>>

\* init runs once the DOM is ready, and the host delivers the records of a
\* MutationObserver that has some
SpecWatch ==
  /\ InitWatch
  /\ [][NextWatch]_vars
  /\ WF_started(Starts)
  /\ WF_queue(Delivers)

-----------------------------------------------------------------------------
(* The lifecycle's properties *)

\* the calls of initializeSwiperComponent the last step made
InitializeCalls == {k \in DOMAIN calls : calls[k].op = "initialize"}

\* the instances constructed for component c and not destroyed
Live(c) == {i \in DOMAIN instances :
              instances[i].component = c /\ instances[i].destroyed = 0}

\* the steps that run initializeAllSwipers
Passes == {"startup", "init", "observer"}

\* the descendants of n with role r
Inside(n, r) == {m \in Nodes : role[m] = r /\ n \in Ancestors(m)}

\* the first node of S in document order
First(S) == CHOOSE n \in S : \A m \in S : n <= m

\* component c has what Swiper's structure requires: a container below it, a
\* wrapper below its first container, a slide below that container's first wrapper
StructurallyValid(c) ==
  /\ Inside(c, "container") # {}
  /\ Inside(First(Inside(c, "container")), "wrapper") # {}
  /\ Inside(First(Inside(First(Inside(c, "container")), "wrapper")), "slide") # {}

\* C1 as amended: among the Initialize calls on a component with no Destroy in
\* between, the constructor returns an instance at most once; and an Initialize
\* on a component that has the initialized-marker returns null as already
\* bound, invokes no constructor, and leaves every marker, handle and the
\* constructed instances as they were.
InitializeIdempotent ==
  \A k \in InitializeCalls :
     /\ calls[k].ctor = "returned" => ~calls[k].returnedBefore
     /\ calls[k].pre.marker[calls[k].comp] =>
          /\ calls[k].result = 0
          /\ calls[k].error = "already"
          /\ calls[k].ctor = "none"
          /\ calls[k].post = calls[k].pre

\* C1's case: Initialize on a component an earlier Initialize has bound
InitializeOnBound ==
  \E k \in InitializeCalls :
     calls[k].returnedBefore /\ calls[k].pre.marker[calls[k].comp]

\* C1 as stated: with no Destroy in between, the constructor is invoked at most
\* once for a component.
ConstructorInvokedAtMostOnce ==
  \A k \in InitializeCalls : calls[k].ctor # "none" => ~calls[k].invokedBefore

\* C2: no component ever has more than one live library instance, whatever the
\* passes, Initialize, Destroy and Reinitialize calls and insertions so far.
NoDoubleBinding == \A c \in Nodes : Cardinality(Live(c)) <= 1

\* C2's case: a pass went over a component that was bound, destroyed and bound
\* again
BoundAgainAndVisited ==
  \E k \in InitializeCalls :
     /\ step \in Passes
     /\ calls[k].error = "already"
     /\ Live(calls[k].comp) # {}
     /\ \E i \in DOMAIN instances :
           instances[i].component = calls[k].comp /\ instances[i].destroyed = 1

\* C3: a pass calls Initialize on every component of the document, in document
\* order, whatever the earlier calls did (no exception leaves Initialize), and
\* every structurally valid component without the marker whose own constructor
\* call does not throw is bound when the pass ends (the library being loaded).
FailureIsolation ==
  step \in Passes =>
    /\ Len(calls) = Len(querySelectorAll(0, "component"))
    /\ \A k \in DOMAIN calls :
          /\ calls[k].op = "initialize"
          /\ calls[k].comp = querySelectorAll(0, "component")[k]
          /\ (/\ swiperLoaded
              /\ StructurallyValid(calls[k].comp)
              /\ ~calls[k].pre.marker[calls[k].comp]
              /\ calls[k].ctor # "threw")
             => /\ calls[k].result # 0
                /\ marker[calls[k].comp]
                /\ handle[calls[k].comp] = calls[k].result
                /\ Live(calls[k].comp) = {calls[k].result}

\* C3's case: in one pass a component fails and a later one is bound
BoundAfterFailure ==
  /\ step \in Passes
  /\ \E j, k \in DOMAIN calls :
        /\ j < k
        /\ calls[j].error \in {"container", "wrapper", "slides", "constructor"}
        /\ calls[k].ctor = "returned"

\* Initialize on component c fails before construction
FailsBeforeConstruction(c) == ~swiperLoaded \/ ~StructurallyValid(c)

\* C4: an Initialize (of a component without the marker) that fails before
\* construction returns null, invokes no constructor, leaves the marker and the
\* handle absent, and adds no class to any element.
FailureLeavesNoTrace ==
  \A k \in InitializeCalls :
     (~calls[k].pre.marker[calls[k].comp] /\ FailsBeforeConstruction(calls[k].comp))
     => /\ calls[k].result = 0
        /\ calls[k].ctor = "none"
        /\ calls[k].error \in {"library", "container", "wrapper", "slides"}
        /\ ~calls[k].post.marker[calls[k].comp]
        /\ calls[k].post.handle[calls[k].comp] = 0
        /\ calls[k].post.classes = calls[k].pre.classes
        /\ calls[k].post.constructed = calls[k].pre.constructed

\* C4's case: the library is loaded, container and wrapper are found, no slide
FailedForSlides ==
  \E k \in InitializeCalls : swiperLoaded /\ calls[k].error = "slides"

\* the calls of destroySwiperComponent the last step made
DestroyCalls == {k \in DOMAIN calls : calls[k].op = "destroy"}

\* call changed of the page what Destroy of a bound component changes: the
\* instance bound to c has one more call of its destroy operation, c has no
\* marker and no handle, and nothing else differs
ReleasedOnly(call, c, bound) ==
  /\ call.post.destroyed = [call.pre.destroyed EXCEPT ![bound] = @ + 1]
  /\ call.post.marker = [call.pre.marker EXCEPT ![c] = FALSE]
  /\ call.post.handle = [call.pre.handle EXCEPT ![c] = 0]
  /\ call.post.classes = call.pre.classes
  /\ call.post.constructed = call.pre.constructed

\* C12: Destroy of a component that has an instance handle calls that
\* instance's destroy operation once, removes the marker and the handle and
\* changes nothing else; Destroy of a component without a handle changes
\* nothing; no instance's destroy operation is ever called twice; and an
\* Initialize of a structurally valid component that follows (no marker, the
\* library loaded, the constructor not throwing) binds it.
DestroyReleases ==
  /\ \A k \in DestroyCalls :
        IF calls[k].pre.handle[calls[k].comp] # 0
        THEN ReleasedOnly(calls[k], calls[k].comp, calls[k].pre.handle[calls[k].comp])
        ELSE calls[k].post = calls[k].pre
  /\ \A i \in DOMAIN instances : instances[i].destroyed <= 1
  /\ \A c \in Nodes : marker[c] <=> handle[c] # 0
  /\ \A k \in InitializeCalls :
        (/\ swiperLoaded
         /\ StructurallyValid(calls[k].comp)
         /\ ~calls[k].pre.marker[calls[k].comp]
         /\ calls[k].ctor # "threw")
        => /\ calls[k].result = calls[k].pre.constructed + 1
           /\ calls[k].post.marker[calls[k].comp]
           /\ calls[k].post.handle[calls[k].comp] = calls[k].result

\* C12's case: Destroy of a component that was bound, destroyed and bound again
DestroyedTwice ==
  \E k \in DestroyCalls :
     /\ step = "destroyComponent"
     /\ calls[k].pre.handle[calls[k].comp] # 0
     /\ ~marker[calls[k].comp]
     /\ \E i \in DOMAIN instances :
           /\ i # calls[k].pre.handle[calls[k].comp]
           /\ instances[i].component = calls[k].comp
           /\ instances[i].destroyed = 1

\* the instances constructed for component c other than instance i
Others(c, i) == {j \in DOMAIN instances : instances[j].component = c /\ j # i}

\* Reinitialize made the calls d (Destroy) and i (Initialize) on component c
\* that had the handle old (0 for none): the old instance's destroy operation
\* was called before the constructor was, and when the component is
\* structurally valid, the library is loaded (as it is once a component was
\* bound) and the constructor returns, the result is an instance
\* constructed by this call, it is the only live instance of c, and every
\* other instance of c has had its destroy operation called once
Rebinds(d, i, c, old) ==
  /\ d.op = "destroy" /\ d.comp = c
  /\ i.op = "initialize" /\ i.comp = c
  /\ i.pre = d.post
  /\ old # 0 => d.pre.destroyed[old] = 0 /\ i.pre.destroyed[old] = 1
  /\ ~i.pre.marker[c]
  /\ (swiperLoaded /\ StructurallyValid(c) /\ i.ctor # "threw")
     => /\ i.ctor = "returned"
        /\ i.result = i.pre.constructed + 1
        /\ i.result # old
        /\ ret = Returned("instance", i.result, <<>>)
        /\ handle[c] = i.result
        /\ Live(c) = {i.result}
        /\ \A j \in Others(c, i.result) : instances[j].destroyed = 1

\* C13: Reinitialize is Destroy, then Initialize.  On a bound component the
\* old instance is destroyed before the new one is constructed; on a
\* structurally valid component, bound or destroyed before, whose constructor
\* returns, it returns a new instance that is not the old one and is the
\* component's only live instance, the old one's destroy operation called
\* exactly once in total.
ReinitializeRebinds ==
  step = "reinitComponent" =>
    /\ Len(calls) = 2
    /\ Rebinds(calls[1], calls[2], calls[1].comp, calls[1].pre.handle[calls[1].comp])

\* C13's case: Reinitialize of a bound component returned a new instance
ReinitializedBound ==
  /\ step = "reinitComponent"
  /\ calls[1].pre.handle[calls[1].comp] # 0
  /\ calls[2].ctor = "returned"
  /\ ret.kind = "instance"

\* the calls of the last step that returned an instance
Succeeded == {k \in DOMAIN calls : calls[k].result # 0}

\* list has one entry for each call of the pass that returned an instance,
\* that instance, in the order of the calls, and no other entry
OnePerSuccess(list) ==
  /\ Len(list) = Cardinality(Succeeded)
  /\ \A i \in DOMAIN list : \E k \in Succeeded : calls[k].result = list[i]
  /\ \A i, j \in DOMAIN list :
        i < j => \E k, l \in Succeeded :
                   /\ k < l
                   /\ calls[k].result = list[i]
                   /\ calls[l].result = list[j]
                   /\ instances[list[i]].component < instances[list[j]].component

\* C14: a pass calls Initialize once on each component of the document, in
\* document order; the list initializeAllSwipers returns (to the caller of
\* WebflowSwiper.init, to init at startup) has, in that order, the instance
\* of each call that returned one and no entry for a call that returned null;
\* it is empty when the document has no component.
DiscoverAllResult ==
  /\ step \in Passes =>
       /\ Len(calls) = Len(querySelectorAll(0, "component"))
       /\ \A k \in DOMAIN calls :
             /\ calls[k].comp = querySelectorAll(0, "component")[k]
             /\ calls[k].result # 0 <=> calls[k].ctor = "returned"
             /\ calls[k].result # 0 => instances[calls[k].result].component = calls[k].comp
  /\ step = "init" =>
       /\ ret.kind = "list"
       /\ OnePerSuccess(ret.list)
       /\ querySelectorAll(0, "component") = <<>> => ret.list = <<>>
  /\ step = "startup" =>
       /\ OnePerSuccess(registry.list)
       /\ querySelectorAll(0, "component") = <<>> => registry.list = <<>>

\* C14's case: a pass bound two components and returned both instances
TwoReturned ==
  /\ step = "init"
  /\ Len(ret.list) = 2
  /\ ret.list[1] # ret.list[2]

\* node n is a component without the marker or has such a component below it
IsOrContainsUnmarked(n) ==
  \E c \in Components : ~marker[c] /\ (c = n \/ n \in Ancestors(c))

\* some node of the records not yet delivered is or contains such a component
SomeInsertedUnmarked ==
  \E i \in DOMAIN queue : \E j \in DOMAIN queue[i] : IsOrContainsUnmarked(queue[i][j])

\* C15 as stated: when the observer's callback gets the records, it runs a
\* pass if and only if some inserted node is a component without the marker
\* or contains one, whether or not the inserted node is itself a component
\* and whether or not it has the marker.
WatcherTriggersOnAnyNew ==
  [][(queue # <<>> /\ queue' = <<>>) => (step' = "observer" <=> SomeInsertedUnmarked)]_vars

\* C15's case: the callback ran no pass, and the document has a component
\* without the marker below a component with the marker
UnmarkedBelowMarkedMissed ==
  /\ step = "observerIdle"
  /\ \E c \in Components :
        /\ ~marker[c]
        /\ InDocument(c)
        /\ \E o \in Ancestors(c) \ {0} : IsComponent(o) /\ marker[o]

\* c is a structurally valid component in the document of a page that has
\* started, with the library loaded and the observer observing
Watched(c) ==
  /\ c \in Nodes
  /\ IsComponent(c)
  /\ started /\ observing /\ swiperLoaded
  /\ InDocument(c)
  /\ StructurallyValid(c)

IsBound(c) == c \in Nodes /\ marker[c] /\ handle[c] # 0

\* C16 as stated: with the library loaded and the observer observing, every
\* structurally valid component that is in the document after startup,
\* however its nodes were inserted, is eventually bound, with no call of the
\* API.
DynamicContentBound == \A c \in 1..MaxNodes : Watched(c) ~> IsBound(c)

\* C16's case: the records are delivered, nothing is left to insert, and a
\* structurally valid component in the document has no marker
ValidAndLeftUnbound ==
  /\ step = "observerIdle"
  /\ queue = <<>>
  /\ detached = {}
  /\ \E c \in Nodes : Watched(c) /\ ~marker[c]

\* WebflowSwiper.getInstances(), lines 733-735: window.swiperInstances || []
getInstances == IF registry.set THEN registry.list ELSE <<>>

\* the instances of a list
Listed(list) == {list[i] : i \in DOMAIN list}

\* C17 as stated: after Destroy of a bound component, the instance that was
\* bound to it is not in the list getInstances returns.
DestroyPrunesList ==
  \A k \in DestroyCalls :
     calls[k].pre.handle[calls[k].comp] # 0
     => calls[k].pre.handle[calls[k].comp] \notin Listed(getInstances)

\* C17's case: Destroy of a component the startup pass had bound
DestroyedAndListed ==
  \E k \in DestroyCalls :
     /\ step = "destroyComponent"
     /\ calls[k].pre.handle[calls[k].comp] # 0
     /\ instances[calls[k].pre.handle[calls[k].comp]].destroyed = 1
     /\ calls[k].pre.handle[calls[k].comp] \in Listed(getInstances)

\* C18 as stated: when a pass has ended (startup, the observer's, or
\* WebflowSwiper.init), each instance it bound is in the list getInstances
\* returns; and a pass removes no entry of that list.
PassesAppendToList ==
  /\ [](step \in Passes => \A k \in Succeeded : calls[k].result \in Listed(getInstances))
  /\ [][step' \in Passes => Listed(getInstances) \subseteq Listed(getInstances')]_vars

\* C18's case: a pass of WebflowSwiper.init or of the observer, after startup,
\* bound a component and its instance is not in the list
BoundAndNotListed ==
  /\ step \in {"init", "observer"}
  /\ started
  /\ \E k \in Succeeded : calls[k].result \notin Listed(getInstances)

\* the call completed: the structural classes are on the elements it found, an
\* instance is constructed, the component has the marker and that handle
Completed(call) ==
  /\ call.ctor = "returned" /\ call.result # 0
  /\ call.post.constructed = call.pre.constructed + 1
  /\ call.post.marker = [call.pre.marker EXCEPT ![call.comp] = TRUE]
  /\ call.post.handle = [call.pre.handle EXCEPT ![call.comp] = call.result]
  /\ call.post.classes
       = [n \in DOMAIN call.pre.classes |->
            call.pre.classes[n] \cup ClassesFor(n, call.work.elements)]

\* the call failed and left everything as it was
Untouched(call) == call.result = 0 /\ call.post = call.pre

\* C25: every Initialize call either completes (classes added, instance
\* constructed, marker and handle set) or fails and leaves the component and
\* its descendants as they were before the call, also when the constructor
\* throws.
InitializeAllOrNothing ==
  \A k \in InitializeCalls : Completed(calls[k]) \/ Untouched(calls[k])

\* C25's case: the constructor threw and the elements found have classes they
\* did not have before the call
ClassesLeftByThrow ==
  \E k \in InitializeCalls :
     /\ calls[k].ctor = "threw"
     /\ calls[k].result = 0
     /\ ~calls[k].post.marker[calls[k].comp]
     /\ calls[k].post.classes # calls[k].pre.classes

\* the components whose Initialize the last step saw fail
FailedNow ==
  {calls[j].comp : j \in {k \in InitializeCalls :
                            calls[k].result = 0 /\ calls[k].error # "already"}}

\* the Initialize calls of the last step on component c
InitializeCallsOn(c) == {k \in InitializeCalls : calls[k].comp = c}

\* the call had what binding takes: the library, the structure, no marker, a
\* constructor that returns
CouldBind(call) ==
  /\ swiperLoaded
  /\ StructurallyValid(call.comp)
  /\ ~call.pre.marker[call.comp]
  /\ call.ctor # "threw"

\* C26 as amended: failed is not terminal.  An Initialize, Reinitialize or
\* discovery pass that comes after a failed Initialize of a component binds the
\* component exactly when the library is loaded, the component has no marker,
\* its container, wrapper and slides are found and the constructor returns.
FailedIsRetried ==
  [][\A c \in FailedNow :
       (\A k \in InitializeCallsOn(c) :
           calls[k].result # 0 <=> CouldBind(calls[k]))']_vars

\* C26's case: the constructor threw for a component, and a later Initialize
\* with no Destroy in between has bound it
BoundAfterThrow ==
  \E k \in InitializeCalls :
     /\ calls[k].invokedBefore /\ ~calls[k].returnedBefore
     /\ calls[k].result # 0
     /\ marker[calls[k].comp]

\* C26 as stated: once an Initialize of a component has failed, no later
\* Initialize, Reinitialize or pass binds the component.
FailedIsTerminal ==
  [][\A c \in FailedNow :
       (\A k \in InitializeCallsOn(c) : calls[k].result = 0)']_vars

\* the instances constructed for component c, destroyed or not
ConstructedFor(c) == {i \in DOMAIN instances : instances[i].component = c}

\* C28: marker and handle agree.  After any sequence of Initialize, Destroy,
\* Reinitialize and discovery passes a component has the initialized-marker if
\* and only if it holds an instance handle, and the handle is the instance
\* constructed last for the component, which has not been destroyed.
MarkerAndHandleAgree ==
  \A c \in Nodes :
     /\ marker[c] <=> handle[c] # 0
     /\ handle[c] # 0 =>
          /\ handle[c] \in ConstructedFor(c)
          /\ instances[handle[c]].destroyed = 0
          /\ \A i \in ConstructedFor(c) : i <= handle[c]

\* C28's case: a component bound, destroyed and bound again holds its second
\* instance
SecondInstanceHeld ==
  \E c \in Nodes :
     /\ marker[c]
     /\ handle[c] # 0
     /\ \E i \in ConstructedFor(c) : i < handle[c] /\ instances[i].destroyed > 0

\* the instances constructed and not destroyed
LiveInstances == {i \in DOMAIN instances : instances[i].destroyed = 0}

\* C29: no two bound components are bound to the same container.  In every
\* document, one with a component inside another included, the containers the
\* live instances were constructed against are pairwise distinct.
DistinctContainers ==
  \A i, j \in LiveInstances : i # j => instances[i].el # instances[j].el

\* C29's case: a component and a component inside it are both bound, and their
\* instances were constructed against the one container
NestedShareContainer ==
  \E c, d \in Nodes :
     /\ role[c] = "component" /\ role[d] = "component"
     /\ c \in Ancestors(d)
     /\ marker[c] /\ marker[d]
     /\ handle[c] # 0 /\ handle[d] # 0
     /\ instances[handle[c]].el = instances[handle[d]].el

\* the nodes the records not yet delivered name
Added == UNION {{queue[i][j] : j \in DOMAIN queue[i]} : i \in DOMAIN queue}

\* component c, without the marker, is node n or inside it
UnmarkedAt(c, n) ==
  IsComponent(c) /\ ~marker[c] /\ (c = n \/ n \in Ancestors(c))

\* a pass leaves no record to deliver: only an insertion does
OnlyInsertionsQueue == Len(queue') > Len(queue) => step' = "insert"

\* the observer runs a pass only for an added node that is, or has inside it, a
\* component without the marker
PassOnlyForNew ==
  step' = "observer" => \E n \in Added : \E c \in Nodes : UnmarkedAt(c, n)

\* a pass calls Initialize on every component of the document that has no marker
PassRetries ==
  step' \in {"startup", "observer"}
  => \A c \in Nodes :
        (IsComponent(c) /\ InDocument(c) /\ ~marker[c])
        => \E k \in DOMAIN calls' :
              calls'[k].op = "initialize" /\ calls'[k].comp = c

\* C30: discovery reaches quiescence.  A pass does not by itself cause a
\* further pass, so once the insertions have ended no record stays to be
\* delivered, also with a structurally invalid component in the document; such
\* a component is retried by each later pass, and the observer runs a later
\* pass only for a newly inserted component without the marker.
DiscoveryQuiesces ==
  /\ <>[](queue = <<>>)
  /\ [][OnlyInsertionsQueue /\ PassOnlyForNew /\ PassRetries]_vars

\* C30's case: the observer's pass has tried a structurally invalid component
\* and bound another one, and nothing is left to deliver or to insert
QuietWithInvalidComponent ==
  /\ step = "observer"
  /\ queue = <<>>
  /\ detached = {}
  /\ \E j, k \in InitializeCalls :
       /\ ~StructurallyValid(calls[j].comp)
       /\ calls[j].result = 0
       /\ calls[k].result # 0

-----------------------------------------------------------------------------
(* The resolution's properties *)

\* the Initialize calls of the last step that got to assemble a configuration
Assembled == {k \in InitializeCalls : calls[k].work.final # Undefined}

\* the attributes parseConfiguration was last applied to, by position
Given == DOMAIN arg

\* attribute i carries the suffix of a tier
Suffixed(i) ==
  \E suffix \in {MobilePortrait, MobileLandscape, Tablet, Desktop} :
     EndsWith(arg[i][1], <<"-">> \o suffix)

\* attribute i is a plain prefixed attribute: a configuration attribute that is
\* neither the marker nor tier-suffixed
Plain(i) ==
  /\ StartsWith(arg[i][1], CONFIG_ATTR_PREFIX)
  /\ arg[i][1] # INITIALIZED_ATTR
  /\ ~Suffixed(i)

\* the option a prefixed attribute names
OptionOf(i) == From(arg[i][1], Len(CONFIG_ATTR_PREFIX) + 1)

DefaultKeys == {kSlidesPerView, kSpaceBetween, kLoop, kSpeed}

DefaultOf(key) ==
  CASE key = kSlidesPerView -> Num(1, 0)
    [] key = kSpaceBetween -> Num(16, 0)
    [] key = kLoop -> Bool(FALSE)
    [] key = kSpeed -> Num(400, 0)

\* the attributes of the end-to-end example
EndToEndAttributes ==
  <<Option(<<"s", "l", "i", "d", "e", "s", "-", "p", "e", "r", "-", "v", "i", "e", "w">>, <<"1">>),
    Option(<<"l", "o", "o", "p">>, <<"t", "r", "u", "e">>)>>

\* C5: the Resolved Configuration's keys other than breakpoints are the four
\* defaults and camelCase(option) of every plain prefixed attribute, a plain
\* attribute's coerced value standing for the key and the default otherwise;
\* neither the marker nor a tier-suffixed attribute makes a key.  Three slides
\* with slides-per-view=1 and loop=true are constructed against the container
\* with {slidesPerView:1, spaceBetween:16, loop:true, speed:400}.
ResolvedKeys ==
  /\ step = "parseConfiguration" =>
       /\ out.config.t = "object"
       /\ (DOMAIN out.config.o) \ {kBreakpoints}
            = (DefaultKeys \cup {kebabToCamel(OptionOf(i)) : i \in {j \in Given : Plain(j)}})
              \ {kBreakpoints}
       /\ \A i \in Given :
             (Plain(i) /\ kebabToCamel(OptionOf(i)) # kBreakpoints)
             => out.config.o[kebabToCamel(OptionOf(i))] = parseValue(arg[i][2])
       /\ \A key \in DefaultKeys :
             (\A i \in Given : Plain(i) => kebabToCamel(OptionOf(i)) # key)
             => out.config.o[key] = DefaultOf(key)
  /\ \A k \in InitializeCalls :
        (/\ calls[k].ctor = "returned"
         /\ role = ThreeSlides.role
         /\ attrs[calls[k].comp] = EndToEndAttributes)
        => /\ instances[calls[k].result].params
                = Obj((kSlidesPerView :> Num(1, 0)) @@ (kSpaceBetween :> Num(16, 0))
                      @@ (kLoop :> Bool(TRUE)) @@ (kSpeed :> Num(400, 0)))
           /\ role[instances[calls[k].result].el] = "container"
           /\ calls[k].comp \in Ancestors(instances[calls[k].result].el)

\* C5's case: the end-to-end example has been constructed, and the resolver
\* applied to the component that now has the marker
EndToEndConstructed ==
  /\ role = ThreeSlides.role
  /\ attrs[1] = EndToEndAttributes
  /\ marker[1]
  /\ step = "parseConfiguration"
  /\ \E i \in Given : arg[i][1] = INITIALIZED_ATTR

\* attribute i is recorded under the tier of suffix: it is prefixed, ends with
\* the suffix and names an option
Recorded(i, suffix) ==
  /\ StartsWith(arg[i][1], CONFIG_ATTR_PREFIX)
  /\ EndsWith(arg[i][1], <<"-">> \o suffix)
  /\ arg[i][1] # CONFIG_ATTR_PREFIX \o <<"-">> \o suffix

\* the tiers of the map, <<suffix, key>>
Tiers ==
  {<<MobileLandscape, <<"4", "8", "0">>>>, <<Tablet, <<"7", "6", "8">>>>,
   <<Desktop, <<"9", "9", "2">>>>}

\* C7: the builder's map has the key of a tier (480, 768, 992) exactly when an
\* attribute was recorded under that tier, and no other key; a mobile-portrait
\* attribute makes no entry; with nothing recorded the result is null and the
\* Resolved Configuration has a breakpoints key only from a plain breakpoints
\* attribute; the cascade example gives {768:{slidesPerView:2},
\* 992:{slidesPerView:4}}.
BreakpointKeys ==
  step = "parseConfiguration" =>
    /\ IF \A t \in Tiers : \A i \in Given : ~Recorded(i, t[1])
       THEN /\ out.breakpointsFromAttrs = Null
            /\ kBreakpoints \in DOMAIN out.config.o
                 <=> \E i \in Given : arg[i][1] = CONFIG_ATTR_PREFIX \o kBreakpoints
       ELSE /\ out.breakpointsFromAttrs.t = "object"
            /\ DOMAIN out.breakpointsFromAttrs.o
                 = {t[2] : t \in {u \in Tiers : \E i \in Given : Recorded(i, u[1])}}
            /\ \A key \in DOMAIN out.breakpointsFromAttrs.o :
                  /\ out.breakpointsFromAttrs.o[key].t = "object"
                  /\ DOMAIN out.breakpointsFromAttrs.o[key].o # {}
    /\ (\A i \in Given : StartsWith(arg[i][1], CONFIG_ATTR_PREFIX)
                         => EndsWith(arg[i][1], <<"-">> \o MobilePortrait))
       => out.breakpointsFromAttrs = Null
    /\ arg = <<<<ROLE_ATTR, ComponentValue>>>> \o CascadeExample
       => out.breakpointsFromAttrs
            = Obj((<<"7", "6", "8">> :> Obj(kSlidesPerView :> Num(2, 0)))
                  @@ (<<"9", "9", "2">> :> Obj(kSlidesPerView :> Num(4, 0))))

\* C7's case: the builder applied to the cascade example
CascadeExampleBuilt ==
  /\ step = "parseConfiguration"
  /\ arg = <<<<ROLE_ATTR, ComponentValue>>>> \o CascadeExample
  /\ out.breakpointsFromAttrs # Null

\* the node the Locator finds for role r under component c (0 for none)
Located(c, r) == IF Inside(c, r) = {} THEN 0 ELSE First(Inside(c, r))

\* the attributes gave the option key an object that has the sub-option sub
Names(parsed, key, sub) ==
  /\ key \in DOMAIN parsed.o
  /\ parsed.o[key].t = "object"
  /\ sub \in DOMAIN parsed.o[key].o

\* C8 as amended: when a pagination element was located the final
\* configuration's pagination.el is that node, for every pagination value of
\* the attributes that is not an object with a sub-option el (an
\* attribute-specified el wins over the located node); when both nav elements
\* were located, navigation.prevEl and navigation.nextEl are the located nodes
\* unless the attributes' navigation object has a sub-option of that name.
BoundByIdentity ==
  \A k \in Assembled :
     /\ (Located(calls[k].comp, "pagination") # 0
         /\ ~Names(calls[k].work.parsed, kPagination, kEl))
        => /\ kPagination \in DOMAIN calls[k].work.final.o
           /\ calls[k].work.final.o[kPagination].t = "object"
           /\ calls[k].work.final.o[kPagination].o[kEl]
                = Elem(Located(calls[k].comp, "pagination"))
     /\ (Located(calls[k].comp, "nav-prev") # 0 /\ Located(calls[k].comp, "nav-next") # 0)
        => /\ kNavigation \in DOMAIN calls[k].work.final.o
           /\ calls[k].work.final.o[kNavigation].t = "object"
           /\ ~Names(calls[k].work.parsed, kNavigation, kPrevEl)
              => calls[k].work.final.o[kNavigation].o[kPrevEl]
                   = Elem(Located(calls[k].comp, "nav-prev"))
           /\ ~Names(calls[k].work.parsed, kNavigation, kNextEl)
              => calls[k].work.final.o[kNavigation].o[kNextEl]
                   = Elem(Located(calls[k].comp, "nav-next"))

\* C8's case: a pagination element located and a pagination object with other
\* sub-options in the attributes
PaginationMerged ==
  \E k \in Assembled :
     /\ Located(calls[k].comp, "pagination") # 0
     /\ kPagination \in DOMAIN calls[k].work.parsed.o
     /\ calls[k].work.parsed.o[kPagination].t = "object"
     /\ calls[k].work.final.o[kPagination].o[kEl]
          = Elem(Located(calls[k].comp, "pagination"))

\* C8 as stated: pagination.el, navigation.prevEl and navigation.nextEl are the
\* located nodes for every value of the attributes, one with el included.
BoundByIdentityAlways ==
  \A k \in Assembled :
     /\ Located(calls[k].comp, "pagination") # 0
        => /\ kPagination \in DOMAIN calls[k].work.final.o
           /\ calls[k].work.final.o[kPagination].t = "object"
           /\ calls[k].work.final.o[kPagination].o[kEl]
                = Elem(Located(calls[k].comp, "pagination"))
     /\ (Located(calls[k].comp, "nav-prev") # 0 /\ Located(calls[k].comp, "nav-next") # 0)
        => /\ kNavigation \in DOMAIN calls[k].work.final.o
           /\ calls[k].work.final.o[kNavigation].t = "object"
           /\ calls[k].work.final.o[kNavigation].o[kPrevEl]
                = Elem(Located(calls[k].comp, "nav-prev"))
           /\ calls[k].work.final.o[kNavigation].o[kNextEl]
                = Elem(Located(calls[k].comp, "nav-next"))

\* the value of key in configuration c, Undefined when c has no such key
Option_(c, key) == IF key \in DOMAIN c.o THEN c.o[key] ELSE Undefined

\* C9: the final configuration has a navigation binding (prevEl and nextEl) if
\* and only if both nav-prev and nav-next were located; otherwise its
\* navigation key is what the Resolved Configuration had, absent included;
\* and a located nav element has its class, alone or not.
NavigationNeedsBoth ==
  \A k \in Assembled :
     /\ IF Located(calls[k].comp, "nav-prev") # 0 /\ Located(calls[k].comp, "nav-next") # 0
        THEN /\ Option_(calls[k].work.final, kNavigation).t = "object"
             /\ {kPrevEl, kNextEl} \subseteq DOMAIN calls[k].work.final.o[kNavigation].o
        ELSE Option_(calls[k].work.final, kNavigation)
               = Option_(calls[k].work.parsed, kNavigation)
     /\ Located(calls[k].comp, "nav-prev") # 0
        => "swiper-button-prev" \in calls[k].post.classes[Located(calls[k].comp, "nav-prev")]
     /\ Located(calls[k].comp, "nav-next") # 0
        => "swiper-button-next" \in calls[k].post.classes[Located(calls[k].comp, "nav-next")]

\* C9's case: nav-prev located without nav-next, no navigation attribute
LonePrevNotBound ==
  \E k \in Assembled :
     /\ Located(calls[k].comp, "nav-prev") # 0
     /\ Located(calls[k].comp, "nav-next") = 0
     /\ kNavigation \notin DOMAIN calls[k].work.final.o
     /\ "swiper-button-prev" \in classes[Located(calls[k].comp, "nav-prev")]

\* C10: autoplay exactly true becomes {delay:3000, disableOnInteraction:false};
\* any other autoplay value, absent included, is passed through; every key
\* other than pagination, navigation and autoplay has the same value in the
\* Resolved Configuration and in the final one; and the Resolved
\* Configuration object is after the assembly what it was before.
AutoplayExpanded ==
  \A k \in Assembled :
     /\ Option_(calls[k].work.final, kAutoplay)
          = IF Option_(calls[k].work.parsed, kAutoplay) = Bool(TRUE)
            THEN Obj((kDelay :> Num(3000, 0)) @@ (kDisableOnInteraction :> Bool(FALSE)))
            ELSE Option_(calls[k].work.parsed, kAutoplay)
     /\ \A key \in (DOMAIN calls[k].work.final.o \cup DOMAIN calls[k].work.parsed.o)
                     \ {kPagination, kNavigation, kAutoplay} :
           Option_(calls[k].work.final, key) = Option_(calls[k].work.parsed, key)
     /\ calls[k].work.parsedAfter = calls[k].work.parsed

\* C10's case: autoplay=true assembled
AutoplayTrueAssembled ==
  \E k \in Assembled :
     /\ Option_(calls[k].work.parsed, kAutoplay) = Bool(TRUE)
     /\ Option_(calls[k].work.final, kAutoplay).t = "object"

\* the Initialize calls of the last step whose prepareSwiperElements returned
Prepared_ == {k \in InitializeCalls : calls[k].work.elements # NoElements}

\* the optional roles: <<role, field of elements, class>>
OptionalRoles ==
  {<<"pagination", "pagination", "swiper-pagination">>,
   <<"nav-prev", "navPrev", "swiper-button-prev">>,
   <<"nav-next", "navNext", "swiper-button-next">>}

\* C11: pagination, nav-prev and nav-next are each the first descendant of the
\* component root with that role, in document order, inside the container or
\* not, and the element found gets its class; without such a descendant the
\* role is unset (null) and Initialize fails for no such absence: a
\* structurally valid component gets to the constructor whatever optional
\* elements it has.  The pagination found is the final configuration's
\* pagination.el and both buttons found are its navigation.prevEl and nextEl
\* (an attribute naming that sub-option aside); with no pagination found the
\* pagination key is what the Resolved Configuration had.
OptionalFromRoot ==
  /\ \A k \in Prepared_ :
        \A r \in OptionalRoles :
           /\ calls[k].work.elements[r[2]] = Located(calls[k].comp, r[1])
           /\ Located(calls[k].comp, r[1]) # 0
              => r[3] \in calls[k].post.classes[Located(calls[k].comp, r[1])]
  /\ \A k \in InitializeCalls :
        (/\ swiperLoaded
         /\ ~calls[k].pre.marker[calls[k].comp]
         /\ StructurallyValid(calls[k].comp))
        => /\ k \in Assembled
           /\ calls[k].ctor # "none"
           /\ calls[k].error \in {"", "constructor"}
  /\ \A k \in Assembled :
        /\ Located(calls[k].comp, "pagination") = 0
           => Option_(calls[k].work.final, kPagination)
                = Option_(calls[k].work.parsed, kPagination)
        /\ (Located(calls[k].comp, "pagination") # 0
            /\ ~Names(calls[k].work.parsed, kPagination, kEl))
           => Option_(calls[k].work.final, kPagination).o[kEl]
                = Elem(Located(calls[k].comp, "pagination"))
        /\ (/\ Located(calls[k].comp, "nav-prev") # 0
            /\ Located(calls[k].comp, "nav-next") # 0
            /\ ~Names(calls[k].work.parsed, kNavigation, kPrevEl)
            /\ ~Names(calls[k].work.parsed, kNavigation, kNextEl))
           => /\ Option_(calls[k].work.final, kNavigation).o[kPrevEl]
                   = Elem(Located(calls[k].comp, "nav-prev"))
              /\ Option_(calls[k].work.final, kNavigation).o[kNextEl]
                   = Elem(Located(calls[k].comp, "nav-next"))

\* C11's case: a pagination element beside the container is found and bound
\* though another one is inside the container, and the component has no button
PaginationBesideFound ==
  \E k \in Assembled :
     /\ calls[k].ctor = "returned"
     /\ calls[k].work.elements.pagination # 0
     /\ calls[k].work.elements.container \notin Ancestors(calls[k].work.elements.pagination)
     /\ Inside(calls[k].work.elements.container, "pagination") # {}
     /\ calls[k].work.elements.navPrev = 0
     /\ instances[calls[k].result].params.o[kPagination].o[kEl]
          = Elem(calls[k].work.elements.pagination)

\* The widths of a tier, the ends of its range in the guide's table
\* (WEBFLOW-GUIDE.md, lines 497-500); the desktop's range has no upper end.
WidthsOf(suffix) ==
  CASE suffix = MobilePortrait -> {0, mobileLandscapePx - 1}
    [] suffix = MobileLandscape -> {mobileLandscapePx, tabletPx - 1}
    [] suffix = Tablet -> {tabletPx, desktopPx - 1}
    [] suffix = Desktop -> {desktopPx, 2 * desktopPx}

\* the entries of config.breakpoints by threshold
Entries(config) ==
  IF Get(config, kBreakpoints).t = "object" THEN Get(config, kBreakpoints).o
  ELSE <<>>

\* the thresholds that set key and are reached at width px
Applying(config, key, px) ==
  {t \in DOMAIN Entries(config) :
     /\ AllDigits(t) /\ DecimalValue(t) <= px
     /\ Get(Entries(config)[t], key) # Undefined}

Highest(thresholds) ==
  CHOOSE t \in thresholds :
    \A u \in thresholds : DecimalValue(u) <= DecimalValue(t)

\* The value of an option at width px as the guide has the library apply the
\* map (WEBFLOW-GUIDE.md, line 606): a setting applies at its breakpoint and
\* above until overridden, and the base value where no breakpoint sets it.
InEffect(config, key, px) ==
  IF Applying(config, key, px) = {} THEN Get(config, key)
  ELSE Get(Entries(config)[Highest(Applying(config, key, px))], key)

LowerTier(suffix) ==
  CASE suffix = Desktop -> Tablet
    [] suffix = Tablet -> MobileLandscape
    [] suffix = MobileLandscape -> MobilePortrait

\* the option that attribute i, recorded under the tier of suffix, names
TierOptionOf(i, suffix) ==
  SubSeq(OptionOf(i), 1, Len(OptionOf(i)) - Len(suffix) - 1)

\* attribute i is the attribute of an option at the tier of suffix: prefix,
\* option, "-", suffix
TierAttribute(i, suffix) ==
  Recorded(i, suffix) /\ Len(OptionOf(i)) > Len(suffix) + 1

\* the attributes that set key at the tier of suffix
SettingAt(key, suffix) ==
  {i \in Given :
     TierAttribute(i, suffix) /\ kebabToCamel(TierOptionOf(i, suffix)) = key}

\* the options the attributes name, and the defaults
OptionKeys ==
  DefaultKeys
  \cup {kebabToCamel(OptionOf(i)) : i \in {j \in Given : Plain(j)}}
  \cup UNION {{kebabToCamel(TierOptionOf(i, t[1])) :
                 i \in {j \in Given : TierAttribute(j, t[1])}} : t \in Tiers}

\* the cascade of key at the tier of suffix
CascadesAt(key, suffix) ==
  \A px \in WidthsOf(suffix) :
     IF SettingAt(key, suffix) # {}
     THEN \A i \in SettingAt(key, suffix) :
             InEffect(out.config, key, px) = parseValue(arg[i][2])
     ELSE \A lower \in WidthsOf(LowerTier(suffix)) :
             InEffect(out.config, key, px) = InEffect(out.config, key, lower)

\* C20: the cascade.  For every option, the value in effect at a tier is the
\* coerced value of that tier's own attribute when there is one, and the value
\* in effect at the next lower tier otherwise: desktop falls back to tablet,
\* tablet to mobile-landscape, mobile-landscape to the base value, which is in
\* effect below 480.  The tiers are set by tier-suffixed attributes, no plain
\* breakpoints attribute beside them.
Cascade ==
  (/\ step = "parseConfiguration"
   /\ \A i \in Given : arg[i][1] # CONFIG_ATTR_PREFIX \o kBreakpoints)
  => \A key \in OptionKeys :
        /\ \A px \in WidthsOf(MobilePortrait) :
              InEffect(out.config, key, px) = Get(out.config, key)
        /\ \A t \in Tiers : CascadesAt(key, t[1])

\* C20's case: an option is set at mobile-landscape and not at tablet, the
\* tablet has an entry of its own for another option, and at tablet width the
\* option has the mobile-landscape value, which is not the base value
LandscapeValueAtTablet ==
  /\ step = "parseConfiguration"
  /\ \A i \in Given : arg[i][1] # CONFIG_ATTR_PREFIX \o kBreakpoints
  /\ \E key \in OptionKeys :
       /\ SettingAt(key, MobileLandscape) # {}
       /\ SettingAt(key, Tablet) = {}
       /\ IntToStr(tabletPx) \in DOMAIN Entries(out.config)
       /\ \A i \in SettingAt(key, MobileLandscape) :
            /\ InEffect(out.config, key, tabletPx) = parseValue(arg[i][2])
            /\ parseValue(arg[i][2]) # Get(out.config, key)

\* a call of parseConfiguration that is not the first
ResolvedAgain ==
  (step' = "parseConfiguration" /\ out # Pending) => out'.config = out.config

\* what initializeSwiperComponent resolved, and what its assembly left of it
ResolvedWithin(call) ==
  /\ call.work.parsed \in {Undefined, out.config}
  /\ call.work.parsedAfter \in {Undefined, out.config}

\* C19: the resolver is idempotent and leaves the defaults alone.  A call of
\* parseConfiguration returns a configuration equal to the one the call before
\* it returned, whatever happened to the component in between (initialized, so
\* that the marker is among its attributes, or destroyed);
\* initializeSwiperComponent resolves to that configuration too and its
\* assembly leaves it as it was; and after every call DEFAULT_CONFIG names what
\* it named before the first.
ResolutionIdempotent ==
  /\ [][ResolvedAgain]_vars
  /\ [](out # Pending => out.defaults = DEFAULT_CONFIG)
  /\ [](out # Pending => \A k \in InitializeCalls : ResolvedWithin(calls[k]))

\* C19's case: the component was bound and destroyed, and its attributes,
\* which say more than the defaults, are resolved
ResolvedAfterDestroy ==
  /\ step = "parseConfiguration"
  /\ \E c \in Components :
       /\ ~marker[c]
       /\ \E i \in DOMAIN instances :
            instances[i].component = c /\ instances[i].destroyed = 1
  /\ out.config # DEFAULT_CONFIG

\* attribute i spells the base tier: prefix, option, "-mobile-portrait"
Portrait(i) ==
  /\ StartsWith(arg[i][1], CONFIG_ATTR_PREFIX)
  /\ EndsWith(arg[i][1], <<"-">> \o MobilePortrait)
  /\ Len(OptionOf(i)) > Len(MobilePortrait) + 1

\* the attributes given, each mobile-portrait one under its unsuffixed name
Unsuffixed ==
  [i \in Given |->
     IF Portrait(i)
     THEN <<SubSeq(arg[i][1], 1, Len(arg[i][1]) - Len(MobilePortrait) - 1), arg[i][2]>>
     ELSE arg[i]]

\* C21: -mobile-portrait is a spelling of the base tier.  A component whose
\* attribute is prefix-<option>-mobile-portrait=v resolves to the configuration
\* of the component that carries prefix-<option>=v in its place (the unsuffixed
\* name not being among its attributes already).
PortraitIsBase ==
  (/\ step = "parseConfiguration"
   /\ \A i, j \in Given : i # j => Unsuffixed[i][1] # Unsuffixed[j][1])
  => out.config = parseConfiguration(Unsuffixed)

\* C21's case: loop-mobile-portrait=true is among the attributes, loop is not,
\* and the configuration resolved has loop false
PortraitValueDropped ==
  /\ step = "parseConfiguration"
  /\ \E i \in Given :
       /\ Portrait(i)
       /\ kebabToCamel(TierOptionOf(i, MobilePortrait)) = kLoop
       /\ parseValue(arg[i][2]) = Bool(TRUE)
  /\ \A i \in Given : arg[i][1] # CONFIG_ATTR_PREFIX \o kLoop
  /\ Get(out.config, kLoop) = Bool(FALSE)

\* a plain object
IsPlain(v) == v.t = "object"

RECURSIVE MergeByRule(_, _)
\* the merge of two plain objects as C23 states it
MergeByRule(target, source) ==
  Obj([k \in (DOMAIN target.o) \cup (DOMAIN source.o) |->
        IF k \notin DOMAIN source.o THEN target.o[k]
        ELSE IF ~IsPlain(source.o[k]) THEN source.o[k]
        ELSE IF k \in DOMAIN target.o /\ IsPlain(target.o[k])
             THEN MergeByRule(target.o[k], source.o[k])
             ELSE source.o[k]])

\* C23: the recursive merge of two plain objects has, for every key of source,
\* source's value when that is no plain object, the merge of target's and
\* source's values when both are plain objects, and source's value when it is
\* a plain object and target's is absent or no plain object; every key of
\* target alone keeps its value.
MergeRule ==
  (step = "deepMerge" /\ IsPlain(arg[1]) /\ IsPlain(arg[2]))
  => out = MergeByRule(arg[1], arg[2])

\* C23's case: target has the number 1 at a, source a plain object at a, and
\* the merge has an empty object there
ObjectOverNumberLost ==
  /\ step = "deepMerge"
  /\ IsPlain(arg[1]) /\ IsPlain(arg[2])
  /\ Get(arg[1], kA) = Num(1, 0)
  /\ Get(arg[2], kA) = Obj(kB :> Num(2, 0))
  /\ Get(out, kA) = EmptyObject

\* the plain breakpoints attributes among those given
PlainBreakpoints == {i \in Given : arg[i][1] = CONFIG_ATTR_PREFIX \o kBreakpoints}

\* the entries a value of the breakpoints attribute supplies: the keys of a
\* plain object
Supplied(v) == IF IsPlain(v) THEN v.o ELSE <<>>

\* every tier and option of the built map is in breakpoints with its value
BuiltIn(breakpoints, built) ==
  \A tier \in DOMAIN built.o :
     \A option \in DOMAIN built.o[tier].o :
        Get(Get(breakpoints, tier), option) = built.o[tier].o[option]

\* every entry of given that the built map does not override is in breakpoints
SuppliedIn(breakpoints, given, built) ==
  \A e \in DOMAIN Supplied(given) :
     /\ e \notin DOMAIN built.o => Get(breakpoints, e) = given.o[e]
     /\ (e \in DOMAIN built.o /\ IsPlain(given.o[e]))
        => \A option \in (DOMAIN given.o[e].o) \ (DOMAIN built.o[e].o) :
              Get(Get(breakpoints, e), option) = given.o[e].o[option]

\* C22: with a map built from tier attributes and a plain breakpoints attribute
\* beside them, the resolved breakpoints holds every tier and option of the built
\* map with the built value and every entry of the attribute that the built map
\* does not override, whatever the attribute's value coerces to.
BuiltMapMerged ==
  (step = "parseConfiguration" /\ out.breakpointsFromAttrs # Null)
  => \A i \in PlainBreakpoints :
        /\ BuiltIn(Get(out.config, kBreakpoints), out.breakpointsFromAttrs)
        /\ SuppliedIn(Get(out.config, kBreakpoints), parseValue(arg[i][2]),
                      out.breakpointsFromAttrs)

\* C22's case: the breakpoints attribute coerces to the number 5, a tablet
\* attribute gives the builder a map, and the resolved breakpoints is empty
BuiltMapLost ==
  /\ step = "parseConfiguration"
  /\ out.breakpointsFromAttrs # Null
  /\ \E i \in PlainBreakpoints : parseValue(arg[i][2]) = Num(5, 0)
  /\ Get(out.config, kBreakpoints) = EmptyObject

kXTabletY == <<"x", "T", "a", "b", "l", "e", "t", "Y">>
kXYTablet == <<"x", "Y", "T", "a", "b", "l", "e", "t">>

\* C24: every attribute prefix-<option>-<tier> of a tier other than the base is
\* recorded by the builder under the tier's threshold at camelCase(<option>)
\* with its coerced value, <option> being the name without the leading prefix
\* and the trailing suffix, also when <option> has a tier's name inside.
RecordedUnderOption ==
  step = "parseConfiguration"
  => \A t \in Tiers :
        \A i \in {j \in Given : TierAttribute(j, t[1])} :
           Get(Get(out.breakpointsFromAttrs, t[2]),
               kebabToCamel(TierOptionOf(i, t[1])))
             = parseValue(arg[i][2])

\* C24's case: x-tablet-y is set at the tablet tier, and the builder's map has
\* the value at xYTablet and nothing at xTabletY
InnerTierNameStripped ==
  /\ step = "parseConfiguration"
  /\ \E i \in Given :
       /\ TierAttribute(i, Tablet)
       /\ kebabToCamel(TierOptionOf(i, Tablet)) = kXTabletY
       /\ Get(Get(out.breakpointsFromAttrs, IntToStr(tabletPx)), kXYTablet)
            = parseValue(arg[i][2])
  /\ Get(Get(out.breakpointsFromAttrs, IntToStr(tabletPx)), kXTabletY) = Undefined

\* C20's failing case: x-tablet-y is set at the tablet tier by its own
\* attribute, no plain breakpoints attribute is given, and at tablet width the
\* option has no value
OwnValueNotInEffect ==
  /\ step = "parseConfiguration"
  /\ PlainBreakpoints = {}
  /\ SettingAt(kXTabletY, Tablet) # {}
  /\ InEffect(out.config, kXTabletY, tabletPx) = Undefined

\* the orders in which the attributes given can be enumerated
Orders == {p \in [Given -> Given] : \A i, j \in Given : p[i] = p[j] => i = j}

\* the attributes given are distinctly named
DistinctlyNamed == \A i, j \in Given : i # j => arg[i][1] # arg[j][1]

\* C27: the configuration resolved does not depend on the order in which the
\* attributes are enumerated.  Every permutation of distinctly named attributes
\* resolves to the same configuration, breakpoints map included.
OrderIndependent ==
  (step = "parseConfiguration" /\ DistinctlyNamed)
  => \A p \in Orders : parseConfiguration([i \in Given |-> arg[p[i]]]) = out.config

\* C27's case: x-tablet-y-tablet=2 and x-y-tablet-tablet=3 resolve to the value
\* of whichever comes last
LastOfTwoWins ==
  /\ step = "parseConfiguration"
  /\ DistinctlyNamed
  /\ \E i, j \in Given :
       /\ i < j
       /\ TierAttribute(i, Tablet) /\ TierAttribute(j, Tablet)
       /\ parseValue(arg[i][2]) # parseValue(arg[j][2])
       /\ Get(Get(Get(out.config, kBreakpoints), IntToStr(tabletPx)), kXYTablet)
            = parseValue(arg[j][2])
       /\ Get(Get(Get(parseConfiguration(Reverse(arg)), kBreakpoints),
                  IntToStr(tabletPx)), kXYTablet)
            = parseValue(arg[i][2])

-----------------------------------------------------------------------------
(* Value coercion's properties *)

RECURSIVE StripZeros(_)
\* the digits of s without leading zeros ("0" for zeros alone)
StripZeros(s) ==
  IF Len(s) > 1 /\ s[1] = "0" THEN StripZeros(Tail(s)) ELSE s

RECURSIVE Pow10(_)
Pow10(n) == IF n = 0 THEN 1 ELSE 10 * Pow10(n - 1)

\* the number v is written digits '.' digits in s, the point at position d
IsDecimal(v, s, d) ==
  /\ v.t = "number"
  /\ v.e <= Len(s) - d
  /\ v.e = 0 \/ v.m % 10 # 0
  /\ v.m * Pow10(Len(s) - d - v.e)
       = DecimalValue(SubSeq(s, 1, d - 1)) * Pow10(Len(s) - d)
         + DecimalValue(From(s, d + 1))

\* C6: parseValue maps a string by the first rule that matches: 'true' and
\* 'false' to the booleans; digits alone to that integer; digits '.' digits to
\* that number; {...} or [...] to its JSON value, or to itself when it is no
\* JSON; anything else, the empty string and a string with a leading minus
\* sign included, to itself.  It returns for every string.
CoercionRules ==
  out # Pending =>
    /\ arg = <<>> => out = Str(<<>>)
    /\ (arg # <<>> /\ arg[1] = "-") => out = Str(arg)
    /\ CASE arg = <<"t", "r", "u", "e">> -> out = Bool(TRUE)
         [] arg = <<"f", "a", "l", "s", "e">> -> out = Bool(FALSE)
         [] arg # <<>> /\ (\A i \in DOMAIN arg : arg[i] \in Digits) ->
              /\ out.t = "number"
              /\ out.e = 0
              /\ IntToStr(out.m) = StripZeros(arg)
         [] \E d \in 2..(Len(arg) - 1) :
               /\ arg[d] = "."
               /\ \A i \in (DOMAIN arg) \ {d} : arg[i] \in Digits ->
              \A d \in 2..(Len(arg) - 1) : arg[d] = "." => IsDecimal(out, arg, d)
         [] arg # <<>> /\ \/ (arg[1] = "{" /\ arg[Len(arg)] = "}")
                          \/ (arg[1] = "[" /\ arg[Len(arg)] = "]") ->
              IF JSONParse(arg).ok THEN out = JSONParse(arg).v ELSE out = Str(arg)
         [] OTHER -> out = Str(arg)

\* C6's case: a value that looks like JSON and is none
MalformedJSONKept ==
  /\ arg = <<"{", "b", "a", "d", "}">>
  /\ out = Str(arg)

====
